---- MODULE Spec2Model ----
(***************************************************************************)
(* ComboClassConfigurator (src/raw/classConfig.js): a declarative engine   *)
(* that binds click, hover and scrollInView triggers to debounced          *)
(* add/remove passes over the class lists of target elements.  Two other   *)
(* components of the library, ToggleHeight (src/unnamed/part_002) and      *)
(* FilterInstance (src/unnamed/part_000), are modelled after the engine;   *)
(* they share no state with it.                                            *)
(*                                                                         *)
(* The browser is modelled by what the engine uses of it: a small          *)
(* document, the queue of requestAnimationFrame callbacks, pending         *)
(* setTimeout timers, IntersectionObserver instances with their observed   *)
(* elements, and the position of each element relative to the viewport.    *)
(* Thresholds and intersection ratios are integers in percent (p stands    *)
(* for the JavaScript number p/100).                                       *)
(***************************************************************************)
EXTENDS Integers, Sequences, FiniteSets, TLC

VARIABLES
    phase,              \* "loading" (setup deferred), "ready", "failed" (setup threw),
                        \* "threw" (the constructor threw)
    initialConfigs,     \* the argument of the constructor (this.initialConfigs if an array)
    classConfigs,       \* this.classConfigs: the expanded rules, classesAdded included
    binding,            \* per rule: the closure state of initEventListeners' forEach body
    deb,                \* per rule: the two debounceHandler closures (add, remove)
    rafQueue,           \* callbacks registered with requestAnimationFrame, in order
    classList,          \* element.classList of every element
    pos,                \* position of every element relative to the viewport
    attached,           \* the elements that are in the document
    observers,          \* the IntersectionObserver instances, in creation order
    scrollObservers,    \* this.scrollObservers: observerConfig key -> observer
    comboClassConfigs,  \* element.__comboClassConfigs of every element
    lastMutation,       \* per element: the last class change made to it (history,
                        \* kept where the executor is looked at on its own)
    log,                \* what the last step did, in order (history)
    lastEvent,          \* the last step taken (history)
    hist,               \* per rule: counters over the whole run (history)
    nEvents,            \* number of trigger events so far (history)
    toggleHeight,       \* the ToggleHeight instance and the styles it sets
    filterInstance      \* the FilterInstance and the classes it sets

vars == <<phase, initialConfigs, classConfigs, binding, deb, rafQueue, classList,
          pos, attached, observers, scrollObservers, comboClassConfigs, lastMutation,
          log, lastEvent, hist, nEvents, toggleHeight, filterInstance>>

(***************************************************************************)
(* Bounds of the model.                                                    *)
(***************************************************************************)
\* trigger events (clicks, pointer moves, crossing notifications) in one run
MaxEvents == 4

(***************************************************************************)
(* JavaScript values.                                                      *)
(***************************************************************************)
\* null, as a threshold value (thresholds are numbers >= 0 otherwise)
Null == -1
\* null, as an element reference
NoElem == 0
\* the document, as the root of a query
Document == 0

(***************************************************************************)
(* Strings.  A JavaScript string is the sequence of its pieces: a piece is *)
(* one of the characters ".", " ", "-", a decimal digit, or a word of      *)
(* letters (and, for attribute names, inner hyphens) that is never split.  *)
(* Concatenation is \o; startsWith, endsWith, trim and replace work on the *)
(* pieces.  "" is <<>>.                                                    *)
(***************************************************************************)
\* the decimal digits of n >= 0
RECURSIVE Digits(_)
Digits(n) ==
    IF n < 10 THEN <<CASE n = 0 -> "0" [] n = 1 -> "1" [] n = 2 -> "2" [] n = 3 -> "3"
                       [] n = 4 -> "4" [] n = 5 -> "5" [] n = 6 -> "6" [] n = 7 -> "7"
                       [] n = 8 -> "8" [] OTHER -> "9">>
    ELSE Digits(n \div 10) \o Digits(n % 10)

\* str.endsWith(suffix)
EndsWith(str, suffix) ==
    /\ Len(suffix) <= Len(str)
    /\ SubSeq(str, Len(str) - Len(suffix) + 1, Len(str)) = suffix

\* str.startsWith(".")
StartsWithDot(str) == str # <<>> /\ Head(str) = "."

(***************************************************************************)
(* The document: six elements in document order.                           *)
(*   1  <div id="box" class="wrap" data-p="g1" data-x="g1">                *)
(*   2     <div id="t" class="item old" data-t="g1" data-x="g2">  (in 1)   *)
(*   3  <div id="t-2" class="item old" data-t="g1" data-x="g2">            *)
(*   4  <div class="item old" data-p=" g1">                                *)
(*   5  <div class="item old" data-p="g2" data-t="">                       *)
(*   6  <div class="item old" data-p=" " data-t="g3">                      *)
(***************************************************************************)
Elems == {1, 2, 3, 4, 5, 6}

ElemId(e) == CASE e = 1 -> <<"box">> [] e = 2 -> <<"t">> [] e = 3 -> <<"t", "-", "2">>
               [] OTHER -> <<>>

Descendants(root) ==
    IF root = Document THEN Elems ELSE IF root = 1 THEN {2} ELSE {}

InitialClassList ==
    [e \in Elems |-> IF e = 1 THEN {<<"wrap">>} ELSE {<<"item">>, <<"old">>}]

\* the attributes of the elements: name -> value (an attribute name is a
\* string of one piece)
Attributes(e) ==
    CASE e = 1 -> [a \in {"data-p", "data-x"} |-> <<"g1">>]
      [] e = 2 -> [a \in {"data-t", "data-x"} |-> IF a = "data-t" THEN <<"g1">> ELSE <<"g2">>]
      [] e = 3 -> [a \in {"data-t", "data-x"} |-> IF a = "data-t" THEN <<"g1">> ELSE <<"g2">>]
      [] e = 4 -> [a \in {"data-p"} |-> <<" ", "g1">>]
      [] e = 5 -> [a \in {"data-p", "data-t"} |-> IF a = "data-p" THEN <<"g2">> ELSE <<>>]
      [] OTHER -> [a \in {"data-p", "data-t"} |-> IF a = "data-p" THEN <<" ">> ELSE <<"g3">>]

Positions == {"above", "inside", "below"}

\* The value of parentElement / triggerElement: a string (a selector or an
\* id), or an Element when the rule was made by attribute pairing.
StrValue(s) == [elem |-> NoElem, str |-> s]
ElemValue(e) == [elem |-> e, str |-> <<>>]
IsElement(v) == v.elem # NoElem

\* the selector `.name`, the id `name`, and ""
Cls(name) == StrValue(<<".", name>>)
Id(name) == StrValue(<<name>>)
Empty == StrValue(<<>>)
Truthy(sel) == IsElement(sel) \/ sel.str # <<>>

\* The elements of set S in document order.
RECURSIVE InOrder(_)
InOrder(S) ==
    IF S = {} THEN <<>>
    ELSE LET e == CHOOSE x \in S : \A y \in S : x <= y
         IN <<e>> \o InOrder(S \ {e})

\* the elements that may be taken out of the document and put back where
\* they were (by a script other than the engine)
Loose == {2, 3}

\* parent.querySelectorAll(selector) for a class selector, against the live
\* class lists cl and the elements `tree` that are in the document
QuerySelectorAll(root, selector, cl, tree) ==
    IF StartsWithDot(selector)
    THEN InOrder({e \in Descendants(root) \cap tree : Tail(selector) \in cl[e]})
    ELSE <<>>

\* document.querySelectorAll(`[${attribute}]`)
QueryAttribute(attribute, tree) ==
    InOrder({e \in tree : attribute[1] \in DOMAIN Attributes(e)})

\* getElement(selectorOrId)
GetElement(selectorOrId, cl, tree) ==
    IF selectorOrId = <<>> THEN NoElem
    ELSE IF StartsWithDot(selectorOrId)
         THEN LET found == QuerySelectorAll(Document, selectorOrId, cl, tree)
              IN IF found = <<>> THEN NoElem ELSE found[1]
         ELSE IF \E e \in tree : ElemId(e) = selectorOrId
              THEN CHOOSE e \in tree : ElemId(e) = selectorOrId
              ELSE NoElem

(***************************************************************************)
(* History: one entry per thing a step did.                                *)
(*   request  a debounced function was called                              *)
(*   exec     the function wrapped by a debouncer ran (n = requests since  *)
(*            its previous run)                                            *)
(*   pass     _initClasses(config, act) ran                                *)
(*   mutate   the frame callback of _initClasses changed element elem      *)
(*   callback the user's callback was invoked with (elem, act)             *)
(*   error    an exception was thrown                                      *)
(***************************************************************************)
Entry(op, rule, act, elem, n) ==
    [op |-> op, rule |-> rule, act |-> act, elem |-> elem, n |-> n,
     again |-> FALSE, repeated |-> FALSE, changed |-> FALSE,
     pos |-> "", before |-> {}, after |-> {}]

Logged(m, e) == [m EXCEPT !.log = Append(@, e)]

(***************************************************************************)
(* Declared values.  A field of a declaration that the normalizer checks   *)
(* by type carries its JavaScript type: a number is num/den (or NaN), any  *)
(* other value is known by its type only.                                  *)
(***************************************************************************)
Num(n) == [type |-> "number", num |-> n, den |-> 1, nan |-> FALSE]
Frac(n, d) == [type |-> "number", num |-> n, den |-> d, nan |-> FALSE]
NaN == [type |-> "number", num |-> 0, den |-> 1, nan |-> TRUE]
NotANumber(type) == [type |-> type, num |-> 0, den |-> 1, nan |-> FALSE]

\* value >= n and value <= n for a number value (false for NaN)
AtLeast(value, n) == ~value.nan /\ value.num >= n * value.den
AtMost(value, n) == ~value.nan /\ value.num <= n * value.den

\* an array of strings, or a value that is not an array
ArrayOf(items) == [isArray |-> TRUE, items |-> items]
NotAnArray == [isArray |-> FALSE, items |-> <<>>]

(***************************************************************************)
(* Configuration Normalizer and Expander (setup).                          *)
(***************************************************************************)
supportedEasings == {"ease", "ease-in", "ease-out", "ease-in-out"}

\* ValidateThreshold without the upper limit
ValidateThresholdNoMax(value, defaultValue) ==
    IF value.type = "number" /\ AtLeast(value, 0)
    THEN value.num
    ELSE defaultValue

\* _validateThreshold(value, defaultValue): a number in [0, 100], else the
\* default.  The result is in percent, an integer (the declared numbers of
\* this model that pass are integers); Null is null.
ValidateThreshold(value, defaultValue) ==
    IF value.type = "number" /\ AtLeast(value, 0) /\ AtMost(value, 100)
    THEN value.num
    ELSE defaultValue

\* cls.replace(".", ""): the first "." is removed
RECURSIVE RemoveFirstDot(_)
RemoveFirstDot(cls) ==
    IF cls = <<>> THEN <<>>
    ELSE IF Head(cls) = "." THEN Tail(cls)
    ELSE <<Head(cls)>> \o RemoveFirstDot(Tail(cls))

RECURSIVE TrimStart(_)
TrimStart(str) ==
    IF str # <<>> /\ Head(str) = " " THEN TrimStart(Tail(str)) ELSE str

RECURSIVE TrimEnd(_)
TrimEnd(str) ==
    IF str # <<>> /\ str[Len(str)] = " " THEN TrimEnd(SubSeq(str, 1, Len(str) - 1)) ELSE str

\* str.trim()
Trim(str) == TrimEnd(TrimStart(str))

\* _cleanClasses(classes)
CleanClasses(classes) ==
    IF classes.isArray
    THEN SelectSeq([k \in 1..Len(classes.items) |-> Trim(RemoveFirstDot(classes.items[k]))],
                   LAMBDA cls : cls # <<>>)
    ELSE <<>>

\* MergedConfig without the special case of lines 260-273
MergedConfigKeepsAll(config) ==
    [config EXCEPT
        !.easingMode = IF @ \in supportedEasings THEN @ ELSE "ease",
        !.entryThreshold = ValidateThreshold(@, 0),
        !.exitThreshold = ValidateThreshold(@, Null),
        !.addClasses = CleanClasses(@),
        !.removeClasses = CleanClasses(@),
        !.topAddClasses = CleanClasses(@)]

\* the body of setup's forEach up to the expansion: defaults merged (the
\* declarations here carry every field), easing and thresholds validated,
\* class lists cleaned, the topAddClasses conflict resolved
MergedConfig(config) ==
    LET v == [config EXCEPT
                !.easingMode = IF @ \in supportedEasings THEN @ ELSE "ease",
                !.entryThreshold = ValidateThreshold(@, 0),
                !.exitThreshold = ValidateThreshold(@, Null),
                !.addClasses = CleanClasses(@),
                !.removeClasses = CleanClasses(@),
                !.topAddClasses = CleanClasses(@)]
    IN IF v.topAddClasses # <<>>
       THEN [v EXCEPT !.removeClasses = <<>>, !.switchAction = FALSE]
       ELSE v

\* repeatCount: Math.floor(repeatConfiguration) if it is a number >= 1, else 1
RepeatCount(mergedConfig) ==
    LET value == mergedConfig.repeatConfiguration
    IN IF value.type = "number" /\ AtLeast(value, 1) THEN value.num \div value.den ELSE 1

\* one entry [value, elements] per distinct non-empty trimmed attribute
\* value, in the order the values first occur; `map` is the Map built so far
RECURSIVE MapElementsByAttribute(_, _, _)
MapElementsByAttribute(elements, attribute, map) ==
    IF elements = <<>> THEN map
    ELSE LET element == Head(elements)
             attrValue == Trim(Attributes(element)[attribute[1]])
             rest == Tail(elements)
         IN IF attrValue = <<>> THEN MapElementsByAttribute(rest, attribute, map)
            ELSE IF \E k \in 1..Len(map) : map[k].value = attrValue
            THEN MapElementsByAttribute(rest, attribute,
                    [k \in 1..Len(map) |->
                        IF map[k].value = attrValue
                        THEN [map[k] EXCEPT !.elements = Append(@, element)]
                        ELSE map[k]])
            ELSE MapElementsByAttribute(rest, attribute,
                    Append(map, [value |-> attrValue, elements |-> <<element>>]))

\* the rule pushed for one (parent, trigger) pair
PairedConfig(config, parent, trigger) ==
    [config EXCEPT !.parentElement = ElemValue(parent),
                   !.triggerElement = ElemValue(trigger),
                   !.repeatConfiguration = Num(1),
                   !.triggerAttribut = <<>>,
                   !.parentAttribut = <<>>]

\* PairsOf that pairs the n-th parent with the n-th trigger only
PairsOfInStep(config, parents, triggers) ==
    [n \in 1..(IF Len(parents) < Len(triggers) THEN Len(parents) ELSE Len(triggers)) |->
        PairedConfig(config, parents[n], triggers[n])]

\* parents.forEach(parent => triggers.forEach(trigger => push))
PairsOf(config, parents, triggers) ==
    [n \in 1..(Len(parents) * Len(triggers)) |->
        PairedConfig(config, parents[((n - 1) \div Len(triggers)) + 1],
                             triggers[((n - 1) % Len(triggers)) + 1])]

RECURSIVE PairFrom(_, _, _, _)
PairFrom(cfgs, config, parentMap, triggerMap) ==
    IF parentMap = <<>> THEN cfgs
    ELSE LET entry == Head(parentMap)
             has == \E k \in 1..Len(triggerMap) : triggerMap[k].value = entry.value
             triggers == (CHOOSE t \in {triggerMap[k] : k \in 1..Len(triggerMap)} :
                              t.value = entry.value).elements
         IN PairFrom(IF has THEN cfgs \o PairsOf(config, entry.elements, triggers) ELSE cfgs,
                     config, Tail(parentMap), triggerMap)

\* _processAttributeBasedPairing(config)
ProcessAttributeBasedPairing(cfgs, config, tree) ==
    PairFrom(cfgs, config,
             MapElementsByAttribute(QueryAttribute(config.parentAttribut, tree),
                                    config.parentAttribut, <<>>),
             MapElementsByAttribute(QueryAttribute(config.triggerAttribut, tree),
                                    config.triggerAttribut, <<>>))

\* AppendSuffix that appends whatever the string ends with
AppendSuffixAlways(str, suffix) ==
    IF str # <<>> THEN str \o suffix ELSE <<>>

\* appendSuffix(str) of _processRepeatConfiguration
AppendSuffix(str, suffix) ==
    IF str # <<>> THEN (IF EndsWith(str, suffix) THEN str ELSE str \o suffix) ELSE <<>>

\* the rule pushed by the i-th round of _processRepeatConfiguration's loop
Replica(config, i) ==
    LET suffix == IF i = 1 THEN <<>> ELSE <<"-">> \o Digits(i)
    IN [config EXCEPT !.parentElement = StrValue(AppendSuffix(@.str, suffix)),
                      !.triggerElement = StrValue(AppendSuffix(@.str, suffix)),
                      !.repeatConfiguration = Num(1)]

\* _processRepeatConfiguration(config, repeatCount)
ProcessRepeatConfiguration(cfgs, config, repeatCount) ==
    cfgs \o [i \in 1..repeatCount |-> Replica(config, i)]

\* the body of setup's forEach, for the k-th declaration (the expanded rules
\* remember k in `declaration`, a history field)
ProcessConfig(cfgs, config, k, tree) ==
    LET mergedConfig == [MergedConfig(config) EXCEPT !.declaration = k]
    IN IF mergedConfig.triggerAttribut # <<>> /\ mergedConfig.parentAttribut # <<>>
       THEN ProcessAttributeBasedPairing(cfgs, mergedConfig, tree)
       ELSE ProcessRepeatConfiguration(cfgs, mergedConfig, RepeatCount(mergedConfig))

\* this.initialConfigs.forEach(...), from the k-th declaration on
RECURSIVE ExpandFrom(_, _, _, _)
ExpandFrom(raw, cfgs, k, tree) ==
    IF k > Len(raw) THEN cfgs
    ELSE ExpandFrom(raw, ProcessConfig(cfgs, raw[k], k, tree), k + 1, tree)

ExpandAll(raw, cfgs, tree) == ExpandFrom(raw, cfgs, 1, tree)

(***************************************************************************)
(* Thresholds and the Pool's key.                                          *)
(***************************************************************************)
\* String(p / 100) as UTF-16 code units, for an integer p in 0..100:
\* "0", "1", or "0." followed by the digits of p without a trailing zero
NumToStr(p) ==
    IF p = 0 THEN <<48>>
    ELSE IF p = 100 THEN <<49>>
    ELSE IF p % 10 = 0 THEN <<48, 46, 48 + (p \div 10)>>
    ELSE <<48, 46, 48 + (p \div 10), 48 + (p % 10)>>

\* a < b for strings, as Array.prototype.sort compares them without a comparator
RECURSIVE StrLess(_, _)
StrLess(a, b) ==
    IF b = <<>> THEN FALSE
    ELSE IF a = <<>> THEN TRUE
    ELSE IF Head(a) # Head(b) THEN Head(a) < Head(b)
    ELSE StrLess(Tail(a), Tail(b))

\* insert x into the sorted sequence s, after the entries not greater than x
RECURSIVE InsertSorted(_, _)
InsertSorted(s, x) ==
    IF s = <<>> THEN <<x>>
    ELSE IF StrLess(NumToStr(x), NumToStr(Head(s))) THEN <<x>> \o s
    ELSE <<Head(s)>> \o InsertSorted(Tail(s), x)

RECURSIVE SortFrom(_, _)
SortFrom(s, acc) ==
    IF s = <<>> THEN acc ELSE SortFrom(Tail(s), InsertSorted(acc, Head(s)))

\* SortJS without the sort
Unsorted(s) == s

\* thresholds.sort(): the default sort, by the elements' strings
SortJS(s) == SortFrom(s, <<>>)

\* _calculateThresholds(entry, exit): Array.from(new Set([entry/100, exit/100]))
CalculateThresholds(entry, exit) ==
    IF exit # Null /\ exit # entry THEN <<entry, exit>> ELSE <<entry>>

\* observerConfig: JSON.stringify({threshold: thresholds.sort(), root: null,
\* rootMargin: "0px"}); the sorted numbers are all that varies in it
ObserverConfig(thresholds) == SortJS(thresholds)

(***************************************************************************)
(* The engine's state as one record m, so that a handler is a function     *)
(* from m to m:  phase, cfg (classConfigs), binding, deb, rafQueue,        *)
(* classList, pos, observers, scrollObservers, combo                       *)
(* (__comboClassConfigs), log, hist.                                       *)
(***************************************************************************)
\* a debounceHandler closure: rafId and timeoutId say whether a frame callback
\* or a timer is pending, argsCache whether it is non-null. History:
\* everCalled says whether it was ever called, pendingReqs counts the calls
\* since the wrapped function last ran, burstExecs the runs of the wrapped
\* function since a call last found no timer pending (the current burst)
IdleDebouncer ==
    [rafId |-> FALSE, timeoutId |-> FALSE, argsCache |-> FALSE,
     everCalled |-> FALSE, pendingReqs |-> 0, burstExecs |-> 0]

\* a frame callback: debounceHandler's `callback`, or _initClasses' closure
\* (history: `again` says that the pass that registered a frame callback of
\* _initClasses came right after a pass of the same rule with the same action)
DebounceCb(i, w) ==
    [kind |-> "debounce", rule |-> i, act |-> w, elem |-> NoElem, again |-> FALSE]
MutateCb(i, action, e, again) ==
    [kind |-> "mutate", rule |-> i, act |-> action, elem |-> e, again |-> again]

\* config.callback is set: the user's callback, or the once wrapper
HasCallback(config) == config.callback \/ config.wrapped

\* el.__comboClassConfigs.indexOf(config): the position of the config object
\* itself; 0 stands for -1
IndexOfConfig(list, i) ==
    IF \E k \in 1..Len(list) : list[k].conf = i /\ ~list[k].isCopy
    THEN CHOOSE k \in 1..Len(list) :
            /\ list[k].conf = i /\ ~list[k].isCopy
            /\ \A j \in 1..(k - 1) : ~(list[j].conf = i /\ ~list[j].isCopy)
    ELSE 0

\* list.splice(k, 1)
SpliceOne(list, k) == [j \in 1..(Len(list) - 1) |-> IF j < k THEN list[j] ELSE list[j + 1]]

\* config.callback(el, action): the user's callback, and for a once
\* scrollInView rule the wrapper installed by _handleScrollInView
ConfigCallback(m, i, el, action) ==
    LET config == m.cfg[i]
        m1 == IF config.callback THEN Logged(m, Entry("callback", i, action, el, 0)) ELSE m
    IN IF ~config.wrapped \/ action # "remove" THEN m1
       ELSE LET o == m.binding[i].observer
                m2 == [m1 EXCEPT !.observers[o].observed = @ \ {el}]
            IN IF ~m2.combo[el].defined
               THEN Logged(m2, Entry("error", i, action, el, 0))
               ELSE LET index == IndexOfConfig(m2.combo[el].list, i)
                    IN IF index > 0
                       THEN [m2 EXCEPT !.combo[el].list = SpliceOne(@, index)]
                       ELSE m2

(***************************************************************************)
(* Label Mutation Executor (_initClasses).                                 *)
(***************************************************************************)
\* the container of a pass: the document unless parentElement is set;
\* an unresolved selector falls back to the document
ParentOf(config, cl, tree) ==
    IF Truthy(config.parentElement)
    THEN IF IsElement(config.parentElement) THEN config.parentElement.elem
         ELSE LET found == GetElement(config.parentElement.str, cl, tree)
              IN IF found = NoElem THEN Document ELSE found
    ELSE Document

\* n % frequency === 0 for n >= 0 and an integer frequency: the remainder
\* by 0 is NaN, the remainder by a negative number that by its absolute value
IsMultiple(n, frequency) ==
    /\ frequency # 0
    /\ n % (IF frequency < 0 THEN -frequency ELSE frequency) = 0

\* Selected with the end index left out
SelectedEndExclusive(config, index) ==
    LET startIndex == config.start - 1
    IN /\ index >= startIndex
       /\ (config.end = 0 \/ index < config.end - 1)
       /\ IsMultiple(index - startIndex, config.frequency)

\* whether the target at 0-based index is selected by start, end, frequency
Selected(config, index) ==
    LET startIndex == config.start - 1
    IN /\ index >= startIndex
       /\ (config.end = 0 \/ index <= config.end - 1)
       /\ IsMultiple(index - startIndex, config.frequency)

\* InitClasses over the target sequence as it was at setup
InitClassesCached(m, i, action) ==
    LET config == m.cfg[i]
        targets == QuerySelectorAll(ParentOf(config, m.classList, m.hist[i].setupTree),
                                    config.targetClass, m.classList, m.hist[i].setupTree)
        chosen == SelectSeq([k \in 1..Len(targets) |-> [elem |-> targets[k], index |-> k - 1]],
                            LAMBDA t : Selected(config, t.index))
        cbs == [k \in 1..Len(chosen) |->
                    MutateCb(i, action, chosen[k].elem, m.hist[i].lastPass = action)]
        m1 == [m EXCEPT !.rafQueue = @ \o cbs,
                        !.hist[i].lastPass = action,
                        !.hist[i].applyCount = IF action = "add" THEN @ + 1 ELSE @,
                        !.hist[i].removeCount = IF action = "remove" THEN @ + 1 ELSE @]
    IN Logged(m1, Entry("pass", i, action, NoElem, Len(chosen)))

\* _initClasses(config, action): one frame callback per selected target
\* (element.style.transition, which no rule reads, is not part of the state)
InitClasses(m, i, action) ==
    LET config == m.cfg[i]
        targets == QuerySelectorAll(ParentOf(config, m.classList, m.attached),
                                    config.targetClass, m.classList, m.attached)
        chosen == SelectSeq([k \in 1..Len(targets) |-> [elem |-> targets[k], index |-> k - 1]],
                            LAMBDA t : Selected(config, t.index))
        cbs == [k \in 1..Len(chosen) |->
                    MutateCb(i, action, chosen[k].elem, m.hist[i].lastPass = action)]
        m1 == [m EXCEPT !.rafQueue = @ \o cbs,
                        !.hist[i].lastPass = action,
                        !.hist[i].applyCount = IF action = "add" THEN @ + 1 ELSE @,
                        !.hist[i].removeCount = IF action = "remove" THEN @ + 1 ELSE @]
    IN Logged(m1, Entry("pass", i, action, NoElem, Len(chosen)))

\* the class names in an array of class names
ClassSet(classes) == {classes[k] : k \in 1..Len(classes)}

\* MutatedClassList with classList.toggle for classList.remove in a remove
\* pass of a rule without topAddClasses
MutatedClassListToggle(config, action, cl, position) ==
    LET addClasses == ClassSet(config.addClasses)
        removeClasses == ClassSet(config.removeClasses)
        topAddClasses == ClassSet(config.topAddClasses)
    IN IF action = "remove"
       THEN IF config.topAddClasses # <<>>
            THEN cl \ (topAddClasses \cup addClasses)
            ELSE (cl \ removeClasses) \cup (removeClasses \ cl)
       ELSE IF config.topAddClasses # <<>>
            THEN IF position = "above"
                 THEN (cl \cup topAddClasses) \ addClasses
                 ELSE IF position = "below"
                      THEN (cl \cup addClasses) \ topAddClasses
                      ELSE cl
            ELSE cl \cup addClasses

\* MutatedClassList with a remove pass of a rule with topAddClasses that
\* leaves addClasses on the element
MutatedClassListKeepsAdded(config, action, cl, position) ==
    LET addClasses == ClassSet(config.addClasses)
        removeClasses == ClassSet(config.removeClasses)
        topAddClasses == ClassSet(config.topAddClasses)
    IN IF action = "remove"
       THEN IF config.topAddClasses # <<>>
            THEN cl \ topAddClasses
            ELSE cl \ removeClasses
       ELSE IF config.topAddClasses # <<>>
            THEN IF position = "above"
                 THEN (cl \cup topAddClasses) \ addClasses
                 ELSE IF position = "below"
                      THEN (cl \cup addClasses) \ topAddClasses
                      ELSE cl
            ELSE cl \cup addClasses

\* the class list of an element after the frame callback of _initClasses
MutatedClassList(config, action, cl, position) ==
    LET addClasses == ClassSet(config.addClasses)
        removeClasses == ClassSet(config.removeClasses)
        topAddClasses == ClassSet(config.topAddClasses)
    IN IF action = "remove"
       THEN IF config.topAddClasses # <<>>
            THEN cl \ (topAddClasses \cup addClasses)
            ELSE cl \ removeClasses
       ELSE IF config.topAddClasses # <<>>
            THEN IF position = "above"
                 THEN (cl \cup topAddClasses) \ addClasses
                 ELSE IF position = "below"
                      THEN (cl \cup addClasses) \ topAddClasses
                      ELSE cl
            ELSE cl \cup addClasses

\* element.getBoundingClientRect() against the viewport: an element that
\* is not in the document has an empty rectangle at the origin, which is
\* neither above nor below the viewport
BoundingClientRect(m, e) == IF e \in m.attached THEN m.pos[e] ELSE "inside"

\* the frame callback registered by _initClasses for one element (history:
\* the log entry says whether the pass came right after a pass of the same
\* action, whether the element's last class change was made by the same
\* rule and action with the element at the same position, whether the
\* class list changed, where the element was, and its class list before and
\* after)
Mutate(m, cb) ==
    LET config == m.cfg[cb.rule]
        position == BoundingClientRect(m, cb.elem)
        mutation == [rule |-> cb.rule, act |-> cb.act, pos |-> position]
        after == MutatedClassList(config, cb.act, m.classList[cb.elem], position)
        kept == cb.elem \in DOMAIN m.lastMutation
        m1 == [m EXCEPT !.classList[cb.elem] = after,
                        !.lastMutation = IF kept THEN [@ EXCEPT ![cb.elem] = mutation] ELSE @]
        m2 == Logged(m1, [Entry("mutate", cb.rule, cb.act, cb.elem, 0) EXCEPT
                            !.again = cb.again,
                            !.repeated = (kept /\ m.lastMutation[cb.elem] = mutation),
                            !.changed = (after # m.classList[cb.elem]),
                            !.pos = position,
                            !.before = m.classList[cb.elem], !.after = after])
    IN IF HasCallback(config) THEN ConfigCallback(m2, cb.rule, cb.elem, cb.act) ELSE m2

(***************************************************************************)
(* The debounced actions (initEventListeners).                             *)
(***************************************************************************)
\* AddClasses without the once guard of line 489
AddClassesUnguarded(m, i) ==
    LET m1 == InitClasses(m, i, "add")
        m2 == [m1 EXCEPT !.cfg[i].classesAdded = TRUE]
    IN IF HasCallback(m2.cfg[i])
       THEN ConfigCallback(m2, i, m2.binding[i].trigger, "add")
       ELSE m2

\* the function wrapped by addClassesDebounced
AddClasses(m, i) ==
    IF ~m.cfg[i].once \/ ~m.cfg[i].classesAdded
    THEN LET m1 == InitClasses(m, i, "add")
             m2 == [m1 EXCEPT !.cfg[i].classesAdded = TRUE]
         IN IF HasCallback(m2.cfg[i])
            THEN ConfigCallback(m2, i, m2.binding[i].trigger, "add")
            ELSE m2
    ELSE m

\* the function wrapped by removeClassesDebounced (`once` is the value
\* destructured from config when the rule was bound; it never changes)
RemoveClasses(m, i) ==
    IF ~m.cfg[i].once
    THEN LET m1 == InitClasses(m, i, "remove")
             m2 == [m1 EXCEPT !.cfg[i].classesAdded = FALSE]
         IN IF HasCallback(m2.cfg[i])
            THEN ConfigCallback(m2, i, m2.binding[i].trigger, "remove")
            ELSE m2
    ELSE m

\* func(...argsCache) with argsCache non-null
RunFunc(m, i, w) ==
    LET m1 == Logged([m EXCEPT !.deb[i][w].pendingReqs = 0,
                               !.deb[i][w].burstExecs = @ + 1],
                     Entry("exec", i, w, NoElem, m.deb[i][w].pendingReqs))
    IN IF w = "add" THEN AddClasses(m1, i) ELSE RemoveClasses(m1, i)

\* func(...argsCache); argsCache = null -- spreading null throws a TypeError
\* before func is called
CallWithArgsCache(m, i, w) ==
    IF m.deb[i][w].argsCache
    THEN [RunFunc(m, i, w) EXCEPT !.deb[i][w].argsCache = FALSE]
    ELSE Logged(m, Entry("error", i, w, NoElem, 0))

\* DebounceCallback without `rafId = null`
DebounceCallbackKeepsRafId(m, i, w) == CallWithArgsCache(m, i, w)

\* debounceHandler's frame callback
DebounceCallback(m, i, w) ==
    CallWithArgsCache([m EXCEPT !.deb[i][w].rafId = FALSE], i, w)

\* cancelAnimationFrame(rafId)
CancelFrame(q, i, w) == SelectSeq(q, LAMBDA cb : cb # DebounceCb(i, w))

\* debounceHandler's timer callback
TimerCallback(m, i, w) ==
    LET m1 == [m EXCEPT !.deb[i][w].timeoutId = FALSE]
        m2 == IF m1.deb[i][w].rafId
              THEN [m1 EXCEPT !.rafQueue = CancelFrame(@, i, w),
                              !.deb[i][w].rafId = FALSE]
              ELSE m1
    IN CallWithArgsCache(m2, i, w)

\* DebouncedCall as a pure trailing-edge debounce: with a delay, the pending
\* frame callback is cancelled and only the timer is left to run the function
DebouncedCallTimerOnly(m, i, w) ==
    LET d == m.deb[i][w]
        delay == m.cfg[i].debounce
        m1 == [m EXCEPT
                 !.deb[i][w].argsCache = TRUE,
                 !.deb[i][w].everCalled = TRUE,
                 !.deb[i][w].pendingReqs = @ + 1,
                 !.deb[i][w].rafId = (delay = 0),
                 !.rafQueue = IF delay > 0 THEN SelectSeq(@, LAMBDA cb : cb # DebounceCb(i, w))
                              ELSE IF d.rafId THEN @ ELSE Append(@, DebounceCb(i, w)),
                 !.deb[i][w].timeoutId = IF delay > 0 THEN TRUE ELSE @,
                 !.deb[i][w].burstExecs = IF delay > 0 /\ ~d.timeoutId THEN 0 ELSE @]
    IN Logged(m1, Entry("request", i, w, NoElem, 0))

\* DebouncedCall without the `rafId === null` test of line 433
DebouncedCallAlwaysRequests(m, i, w) ==
    LET d == m.deb[i][w]
        delay == m.cfg[i].debounce
        m1 == [m EXCEPT
                 !.deb[i][w].argsCache = TRUE,
                 !.deb[i][w].everCalled = TRUE,
                 !.deb[i][w].pendingReqs = @ + 1,
                 !.deb[i][w].rafId = TRUE,
                 !.rafQueue = Append(@, DebounceCb(i, w)),
                 !.deb[i][w].timeoutId = IF delay > 0 THEN TRUE ELSE @,
                 !.deb[i][w].burstExecs = IF delay > 0 /\ ~d.timeoutId THEN 0 ELSE @]
    IN Logged(m1, Entry("request", i, w, NoElem, 0))

\* the debounced function returned by debounceHandler, called
DebouncedCall(m, i, w) ==
    LET d == m.deb[i][w]
        delay == m.cfg[i].debounce
        m1 == [m EXCEPT
                 !.deb[i][w].argsCache = TRUE,
                 !.deb[i][w].everCalled = TRUE,
                 !.deb[i][w].pendingReqs = @ + 1,
                 !.deb[i][w].rafId = TRUE,
                 !.rafQueue = IF d.rafId THEN @ ELSE Append(@, DebounceCb(i, w)),
                 !.deb[i][w].timeoutId = IF delay > 0 THEN TRUE ELSE @,
                 !.deb[i][w].burstExecs = IF delay > 0 /\ ~d.timeoutId THEN 0 ELSE @]
    IN Logged(m1, Entry("request", i, w, NoElem, 0))

\* one rendering frame: the callbacks registered before it run in order;
\* what they register runs in the next frame
RunCallback(m, cb) ==
    IF cb.kind = "debounce" THEN DebounceCallback(m, cb.rule, cb.act) ELSE Mutate(m, cb)

RECURSIVE RunCallbacks(_, _)
RunCallbacks(q, m) ==
    IF q = <<>> THEN m ELSE RunCallbacks(Tail(q), RunCallback(m, Head(q)))

AnimationFrame(m) == RunCallbacks(m.rafQueue, [m EXCEPT !.rafQueue = <<>>])

(***************************************************************************)
(* Event-to-Action Dispatcher: the listeners.                              *)
(***************************************************************************)
\* ClickListener of replicas that share one configuration object: the toggle
\* of line 639 reaches every rule made from the same declaration
ClickListenerSharedConfig(m, i) ==
    LET action == IF m.cfg[i].classesAdded THEN "remove" ELSE "add"
        m1 == DebouncedCall(m, i, action)
        m2 == [m1 EXCEPT !.cfg = [j \in DOMAIN m1.cfg |->
                    IF m1.cfg[j].declaration = m1.cfg[i].declaration
                    THEN [m1.cfg[j] EXCEPT !.classesAdded = ~m1.cfg[i].classesAdded]
                    ELSE m1.cfg[j]]]
    IN IF HasCallback(m2.cfg[i])
       THEN ConfigCallback(m2, i, m2.binding[i].trigger, action)
       ELSE m2

\* ClickListener without the toggle of line 639
ClickListenerNoToggle(m, i) ==
    LET action == IF m.cfg[i].classesAdded THEN "remove" ELSE "add"
        h == m.hist[i]
        m0 == [m EXCEPT !.hist[i] = [h EXCEPT !.clicks = @ + 1,
                                              !.sinceFrame = @ + 1,
                                              !.spaced = @ /\ h.sinceFrame = 0]]
        m1 == DebouncedCall(m0, i, action)
    IN IF HasCallback(m1.cfg[i])
       THEN ConfigCallback(m1, i, m1.binding[i].trigger, action)
       ELSE m1

\* the click listener registered by _handleClick
ClickListener(m, i) ==
    LET action == IF m.cfg[i].classesAdded THEN "remove" ELSE "add"
        h == m.hist[i]
        m0 == [m EXCEPT !.hist[i] = [h EXCEPT !.clicks = @ + 1,
                                              !.sinceFrame = @ + 1,
                                              !.spaced = @ /\ h.sinceFrame = 0]]
        m1 == DebouncedCall(m0, i, action)
        m2 == [m1 EXCEPT !.cfg[i].classesAdded = ~@]
    IN IF HasCallback(m2.cfg[i])
       THEN ConfigCallback(m2, i, m2.binding[i].trigger, action)
       ELSE m2

\* HoverListener as a toggle on classesAdded: a pointer move asks for remove
\* if the classes are on, for apply otherwise
HoverListenerToggle(m, i, enter) ==
    DebouncedCall(m, i, IF m.cfg[i].classesAdded THEN "remove" ELSE "add")

\* the mouseenter / mouseleave listeners registered by _handleHover
HoverListener(m, i, enter) ==
    IF m.cfg[i].switchAction
    THEN DebouncedCall(m, i, IF enter THEN "remove" ELSE "add")
    ELSE DebouncedCall(m, i, IF enter THEN "add" ELSE "remove")

\* ObserveConf with plain enter/exit for a topAddClasses rule whose target
\* is neither above nor below the viewport
ObserveConfEnterExit(m, conf, target, ratio) ==
    IF conf.topAddClasses # <<>> /\ m.pos[target] = "above"
    THEN DebouncedCall(m, conf.conf, "add")
    ELSE IF conf.topAddClasses # <<>> /\ m.pos[target] = "below"
    THEN DebouncedCall(m, conf.conf, "remove")
    ELSE IF conf.switchAction
    THEN LET m1 == IF ratio >= conf.entryThreshold
                   THEN DebouncedCall(m, conf.conf, "remove") ELSE m
         IN IF conf.exitThreshold # Null /\ ratio < conf.exitThreshold
            THEN DebouncedCall(m1, conf.conf, "add") ELSE m1
    ELSE LET m1 == IF ratio >= conf.entryThreshold
                   THEN DebouncedCall(m, conf.conf, "add") ELSE m
         IN IF conf.exitThreshold # Null /\ ratio < conf.exitThreshold
            THEN DebouncedCall(m1, conf.conf, "remove") ELSE m1

\* ObserveConf with `>` for `>=` in the entry comparisons
ObserveConfStrict(m, conf, target, ratio) ==
    IF conf.topAddClasses # <<>>
    THEN IF m.pos[target] = "above" THEN DebouncedCall(m, conf.conf, "add")
         ELSE IF m.pos[target] = "below" THEN DebouncedCall(m, conf.conf, "remove")
         ELSE m
    ELSE IF conf.switchAction
    THEN LET m1 == IF ratio > conf.entryThreshold
                   THEN DebouncedCall(m, conf.conf, "remove") ELSE m
         IN IF conf.exitThreshold # Null /\ ratio < conf.exitThreshold
            THEN DebouncedCall(m1, conf.conf, "add") ELSE m1
    ELSE LET m1 == IF ratio > conf.entryThreshold
                   THEN DebouncedCall(m, conf.conf, "add") ELSE m
         IN IF conf.exitThreshold # Null /\ ratio < conf.exitThreshold
            THEN DebouncedCall(m1, conf.conf, "remove") ELSE m1

\* the IntersectionObserver callback, for one rule of the target's side list
ObserveConf(m, conf, target, ratio) ==
    IF conf.topAddClasses # <<>>
    THEN IF m.pos[target] = "above" THEN DebouncedCall(m, conf.conf, "add")
         ELSE IF m.pos[target] = "below" THEN DebouncedCall(m, conf.conf, "remove")
         ELSE m
    ELSE IF conf.switchAction
    THEN LET m1 == IF ratio >= conf.entryThreshold
                   THEN DebouncedCall(m, conf.conf, "remove") ELSE m
         IN IF conf.exitThreshold # Null /\ ratio < conf.exitThreshold
            THEN DebouncedCall(m1, conf.conf, "add") ELSE m1
    ELSE LET m1 == IF ratio >= conf.entryThreshold
                   THEN DebouncedCall(m, conf.conf, "add") ELSE m
         IN IF conf.exitThreshold # Null /\ ratio < conf.exitThreshold
            THEN DebouncedCall(m1, conf.conf, "remove") ELSE m1

RECURSIVE ObserveConfs(_, _, _, _)
ObserveConfs(m, confs, target, ratio) ==
    IF confs = <<>> THEN m
    ELSE ObserveConfs(ObserveConf(m, Head(confs), target, ratio), Tail(confs), target, ratio)

\* the IntersectionObserver callback, for one entry
ObserverCallback(m, target, ratio) ==
    ObserveConfs(m, IF m.combo[target].defined THEN m.combo[target].list ELSE <<>>,
                 target, ratio)

\* the rules listening for an event of kind eventName on element e, in
\* the order their listeners were registered
Listeners(m, eventName, e) ==
    SelectSeq([i \in 1..Len(m.cfg) |-> i],
              LAMBDA i : /\ m.binding[i].listening
                         /\ m.cfg[i].eventName = eventName
                         /\ m.binding[i].trigger = e)

\* the listener of rule i for a DOM event of the given type
Listener(m, i, type) ==
    IF type = "click" THEN ClickListener(m, i)
    ELSE HoverListener(m, i, type = "mouseenter")

\* a DOM event of the given type on an element: its listeners run in order
RECURSIVE Dispatch(_, _, _)
Dispatch(m, rules, type) ==
    IF rules = <<>> THEN m
    ELSE Dispatch(Listener(m, Head(rules), type), Tail(rules), type)

(***************************************************************************)
(* Event-to-Action Dispatcher: binding (initEventListeners).               *)
(***************************************************************************)
\* a TypeError thrown while binding rule i: setup stops there
Thrown(m, i) == Logged([m EXCEPT !.phase = "failed"], Entry("error", i, "bind", NoElem, 0))

\* _handleClick, _handleHover: element.addEventListener(...)
HandleListener(m, i, element) ==
    IF element = NoElem THEN Thrown(m, i)
    ELSE [m EXCEPT !.binding[i].listening = TRUE]

\* the copy of config pushed on the element's side list
ConfCopy(config, i) ==
    [conf |-> i, isCopy |-> TRUE, switchAction |-> config.switchAction,
     entryThreshold |-> config.entryThreshold, exitThreshold |-> config.exitThreshold,
     topAddClasses |-> config.topAddClasses]

\* this.scrollObservers.get(observerConfig); 0 stands for undefined
PoolGet(pool, key) ==
    IF \E r \in pool : r.key = key THEN (CHOOSE r \in pool : r.key = key).observer ELSE 0

\* _handleScrollInView(element, config, addCallback, removeCallback, thresholds)
HandleScrollInView(m, i, element, thresholds) ==
    LET observerConfig == ObserverConfig(thresholds)
        found == PoolGet(m.scrollObservers, observerConfig)
        observer == IF found = 0 THEN Len(m.observers) + 1 ELSE found
        m1 == IF found = 0
              THEN [m EXCEPT
                      !.observers = Append(@, [threshold |-> SortJS(thresholds), observed |-> {}]),
                      !.scrollObservers = @ \cup {[key |-> observerConfig, observer |-> observer]}]
              ELSE m
    IN IF element = NoElem THEN Thrown(m1, i)
       ELSE LET m2 == IF ~m1.combo[element].defined
                      THEN [m1 EXCEPT !.combo[element] = [defined |-> TRUE, list |-> <<>>],
                                      !.observers[observer].observed = @ \cup {element}]
                      ELSE m1
            IN [m2 EXCEPT !.combo[element].list = Append(@, ConfCopy(m.cfg[i], i)),
                          !.binding[i].listening = TRUE,
                          !.binding[i].observer = observer,
                          !.cfg[i].wrapped = m.cfg[i].once]

\* _applyImmediateClasses(config)
ApplyImmediateClasses(m, i) ==
    LET config == m.cfg[i]
        m1 == IF config.topAddClasses # <<>> \/ config.addClasses # <<>>
              THEN [InitClasses(m, i, "add") EXCEPT !.cfg[i].classesAdded = TRUE]
              ELSE m
    IN IF config.removeClasses # <<>>
       THEN [InitClasses(m1, i, "remove") EXCEPT !.cfg[i].classesAdded = FALSE]
       ELSE m1

\* BindRule without the early return of line 482: the handler is called
\* with null for a trigger selector that matches nothing
BindRuleNoSkip(m, i) ==
    LET config == m.cfg[i]
        triggerElement == IF Truthy(config.triggerElement)
                          THEN IF IsElement(config.triggerElement)
                               THEN config.triggerElement.elem
                               ELSE GetElement(config.triggerElement.str, m.classList, m.attached)
                          ELSE NoElem
        m1 == [m EXCEPT !.binding[i].created = TRUE,
                        !.binding[i].trigger = triggerElement]
    IN IF config.eventName \in {"click", "hover"}
       THEN HandleListener(m1, i, triggerElement)
       ELSE IF config.eventName = "scrollInView"
       THEN HandleScrollInView(m1, i, triggerElement,
                CalculateThresholds(config.entryThreshold, config.exitThreshold))
       ELSE ApplyImmediateClasses(m1, i)

\* the body of initEventListeners' forEach for rule i
BindRule(m, i) ==
    LET config == m.cfg[i]
        triggerElement == IF Truthy(config.triggerElement)
                          THEN IF IsElement(config.triggerElement)
                               THEN config.triggerElement.elem
                               ELSE GetElement(config.triggerElement.str, m.classList, m.attached)
                          ELSE NoElem
    IN IF Truthy(config.triggerElement) /\ triggerElement = NoElem THEN m
       ELSE LET m1 == [m EXCEPT !.binding[i].created = TRUE,
                                !.binding[i].trigger = triggerElement]
            IN IF config.eventName \in {"click", "hover"}
               THEN HandleListener(m1, i, triggerElement)
               ELSE IF config.eventName = "scrollInView"
               THEN HandleScrollInView(m1, i, triggerElement,
                        CalculateThresholds(config.entryThreshold, config.exitThreshold))
               ELSE ApplyImmediateClasses(m1, i)

\* forEach stops at the first exception
RECURSIVE BindFrom(_, _)
BindFrom(m, i) ==
    IF i > Len(m.cfg) \/ m.phase = "failed" THEN m ELSE BindFrom(BindRule(m, i), i + 1)

InitEventListeners(m) == BindFrom(m, 1)

Unbound == [created |-> FALSE, trigger |-> NoElem, listening |-> FALSE, observer |-> 0]

NoHistory ==
    [applyCount |-> 0, removeCount |-> 0, clicks |-> 0, sinceFrame |-> 0, spaced |-> TRUE,
     lastPass |-> "", setupTree |-> {}]

\* setup()
Setup(m, raw) ==
    LET cfgs == ExpandAll(raw, <<>>, m.attached)
        m1 == [m EXCEPT !.cfg = cfgs,
                        !.binding = [i \in 1..Len(cfgs) |-> Unbound],
                        !.deb = [i \in 1..Len(cfgs) |-> [add |-> IdleDebouncer, remove |-> IdleDebouncer]],
                        !.hist = [i \in 1..Len(cfgs) |->
                                    [NoHistory EXCEPT !.setupTree = m.attached]]]
        m2 == InitEventListeners(m1)
    IN IF m2.phase = "failed" THEN m2 ELSE [m2 EXCEPT !.phase = "ready"]

(***************************************************************************)
(* The state machine.                                                      *)
(***************************************************************************)
\* the engine's state, with an empty log for the step about to be taken
M ==
    [phase |-> phase, cfg |-> classConfigs, binding |-> binding, deb |-> deb,
     rafQueue |-> rafQueue, classList |-> classList, pos |-> pos, attached |-> attached,
     observers |-> observers, scrollObservers |-> scrollObservers,
     combo |-> comboClassConfigs, lastMutation |-> lastMutation, log |-> <<>>,
     hist |-> hist]

\* the page has no ToggleHeight and no FilterInstance
NoToggleHeight == [loaded |-> FALSE, config |-> <<>>, height |-> <<>>, rotation |-> <<>>,
                   rootFontSize |-> 0, activated |-> FALSE, resized |-> FALSE]
NoFilterInstance == [created |-> FALSE, opt |-> <<>>, elements |-> <<>>,
                     currentFilter |-> [null |-> TRUE, str |-> <<>>],
                     buttons |-> <<>>, hidden |-> {}, resets |-> 0]

EngineIs(m) ==
    /\ phase = m.phase /\ classConfigs = m.cfg /\ binding = m.binding /\ deb = m.deb
    /\ rafQueue = m.rafQueue /\ classList = m.classList /\ pos = m.pos
    /\ attached = m.attached
    /\ observers = m.observers /\ scrollObservers = m.scrollObservers
    /\ comboClassConfigs = m.combo /\ lastMutation = m.lastMutation
    /\ log = m.log /\ hist = m.hist

StateIs(m) ==
    /\ toggleHeight = NoToggleHeight /\ filterInstance = NoFilterInstance
    /\ EngineIs(m)

Becomes(m) ==
    /\ UNCHANGED <<toggleHeight, filterInstance>>
    /\ phase' = m.phase /\ classConfigs' = m.cfg /\ binding' = m.binding /\ deb' = m.deb
    /\ rafQueue' = m.rafQueue /\ classList' = m.classList /\ pos' = m.pos
    /\ attached' = m.attached
    /\ observers' = m.observers /\ scrollObservers' = m.scrollObservers
    /\ comboClassConfigs' = m.combo /\ lastMutation' = m.lastMutation
    /\ log' = m.log /\ hist' = m.hist

Event(type, elem, rule, act, ratio) ==
    [type |-> type, elem |-> elem, rule |-> rule, act |-> act, ratio |-> ratio]

\* no class change was made yet
NoMutation == [rule |-> 0, act |-> "", pos |-> ""]

\* the state when the constructor starts
Constructed ==
    [phase |-> "loading", cfg |-> <<>>, binding |-> <<>>, deb |-> <<>>,
     rafQueue |-> <<>>, classList |-> InitialClassList,
     pos |-> [e \in Elems |-> "inside"], attached |-> Elems,
     observers |-> <<>>, scrollObservers |-> {},
     combo |-> [e \in Elems |-> [defined |-> FALSE, list |-> <<>>]],
     lastMutation |-> <<>>,
     log |-> <<>>, hist |-> <<>>]

\* a declaration with every field; the selectors resolve in the document
BaseRule ==
    [eventName |-> "click", triggerElement |-> Cls("item"), parentElement |-> Cls("wrap"),
     targetClass |-> <<".", "item">>, once |-> FALSE, debounce |-> 0, switchAction |-> FALSE,
     easingMode |-> "ease", entryThreshold |-> Num(0), exitThreshold |-> NotANumber("object"),
     addClasses |-> ArrayOf(<<<<"future">>>>), removeClasses |-> ArrayOf(<<<<"old">>>>),
     topAddClasses |-> ArrayOf(<<>>),
     repeatConfiguration |-> Num(1), triggerAttribut |-> <<>>, parentAttribut |-> <<>>,
     start |-> 1, end |-> 0, frequency |-> 1,
     callback |-> TRUE, classesAdded |-> FALSE, wrapped |-> FALSE, declaration |-> 0]

ClickRules ==
    {[BaseRule EXCEPT !.once = o, !.debounce = d] : o \in BOOLEAN, d \in {0, 100}}

HoverRules ==
    {[BaseRule EXCEPT !.eventName = "hover", !.switchAction = s, !.debounce = d] :
        s \in BOOLEAN, d \in {0, 100}}

ScrollRules ==
    {[BaseRule EXCEPT !.eventName = "scrollInView", !.once = o, !.switchAction = s,
                      !.debounce = d, !.entryThreshold = Num(t[1]),
                      !.exitThreshold = IF t[2] = Null THEN NotANumber("object") ELSE Num(t[2])] :
        o \in BOOLEAN, s \in BOOLEAN, d \in {0, 100},
        t \in {<<50, Null>>, <<50, 25>>, <<25, 50>>}}

TopRules ==
    {[BaseRule EXCEPT !.eventName = "scrollInView", !.once = o, !.debounce = d,
                      !.entryThreshold = Num(t[1]), !.exitThreshold = Num(t[2]),
                      !.topAddClasses = ArrayOf(<<<<"past">>>>)] :
        o \in BOOLEAN, d \in {0, 100}, t \in {<<50, 25>>, <<0, 100>>}}

\* the lists of declarations the engine is constructed with
Declarations == {<<r>> : r \in ClickRules \cup HoverRules \cup ScrollRules \cup TopRules}

\* intersection ratios a crossing notification may carry, in percent
Ratios == {0, 25, 40, 50, 100}

\* document.readyState when the constructor runs (kept in the step's event)
ReadyState(loading) == IF loading THEN "loading" ELSE "complete"

\* Constructor that calls setup at once and registers the listener as well
ConstructorEager(configs, loading) ==
    IF ~configs.isArray THEN [Constructed EXCEPT !.phase = "threw"]
    ELSE IF loading THEN [Setup(Constructed, configs.items) EXCEPT !.phase = "loading"]
    ELSE Setup(Constructed, configs.items)

\* Constructor without the Array.isArray check
ConstructorUnchecked(configs, loading) ==
    IF loading THEN Constructed ELSE Setup(Constructed, configs.items)

\* new ComboClassConfigurator(configs) with document.readyState "loading" or
\* not: throws unless configs is an array; setup runs at once unless the
\* document is still loading
Constructor(configs, loading) ==
    IF ~configs.isArray THEN [Constructed EXCEPT !.phase = "threw"]
    ELSE IF loading THEN Constructed
    ELSE Setup(Constructed, configs.items)

Init ==
    \E raw \in Declarations, loading \in BOOLEAN :
        /\ initialConfigs = ArrayOf(raw)
        /\ StateIs(Constructor(ArrayOf(raw), loading))
        /\ lastEvent = Event("construct", NoElem, 0, ReadyState(loading), 0)
        /\ nEvents = 0

\* the DOMContentLoaded listener registered by the constructor
DOMContentLoaded ==
    /\ phase = "loading"
    /\ Becomes(Setup(M, initialConfigs.items))
    /\ lastEvent' = Event("DOMContentLoaded", NoElem, 0, "", 0)
    /\ UNCHANGED <<initialConfigs, nEvents>>

\* a click on element e
Click(e) ==
    /\ nEvents < MaxEvents
    /\ Listeners(M, "click", e) # <<>>
    /\ Becomes(Dispatch(M, Listeners(M, "click", e), "click"))
    /\ lastEvent' = Event("click", e, 0, "", 0)
    /\ nEvents' = nEvents + 1
    /\ UNCHANGED initialConfigs

\* the pointer enters or leaves element e
Hover(e, type) ==
    /\ nEvents < MaxEvents
    /\ Listeners(M, "hover", e) # <<>>
    /\ Becomes(Dispatch(M, Listeners(M, "hover", e), type))
    /\ lastEvent' = Event(type, e, 0, "", 0)
    /\ nEvents' = nEvents + 1
    /\ UNCHANGED initialConfigs

\* observer o notifies a crossing of element e, which is then at position p
\* with intersection ratio r
Crossing(o, e, r, p) ==
    /\ nEvents < MaxEvents
    /\ e \in observers[o].observed
    /\ r > 0 => p = "inside"
    /\ Becomes(ObserverCallback([M EXCEPT !.pos[e] = p], e, r))
    /\ lastEvent' = Event("crossing", e, 0, p, r)
    /\ nEvents' = nEvents + 1
    /\ UNCHANGED initialConfigs

\* the browser renders a frame
Frame ==
    /\ Becomes(AnimationFrame([M EXCEPT !.hist = [i \in DOMAIN hist |->
                                            [hist[i] EXCEPT !.sinceFrame = 0]]]))
    /\ lastEvent' = Event("frame", NoElem, 0, "", 0)
    /\ UNCHANGED <<initialConfigs, nEvents>>

\* the timer of debouncer w of rule i expires
Timer(i, w) ==
    /\ deb[i][w].timeoutId
    /\ Becomes(TimerCallback(M, i, w))
    /\ lastEvent' = Event("timer", NoElem, i, w, 0)
    /\ UNCHANGED <<initialConfigs, nEvents>>

Next ==
    \/ DOMContentLoaded
    \/ \E e \in Elems : Click(e)
    \/ \E e \in Elems, type \in {"mouseenter", "mouseleave"} : Hover(e, type)
    \/ \E o \in DOMAIN observers, e \in Elems, r \in Ratios, p \in Positions :
            Crossing(o, e, r, p)
    \/ Frame
    \/ \E i \in DOMAIN deb, w \in {"add", "remove"} : Timer(i, w)

Spec == Init /\ [][Next]_vars

(***************************************************************************)
(* The Pool at setup: lists of visibility rules over several triggers.     *)
(***************************************************************************)
\* visibility rules per list of declarations
MaxPoolRules == 2

\* visibility rules with valid and invalid thresholds, on resolved,
\* unresolved and undeclared triggers
PoolRules ==
    {[BaseRule EXCEPT !.eventName = "scrollInView", !.triggerElement = t,
                      !.entryThreshold = Num(n),
                      !.exitThreshold = IF x = Null THEN NotANumber("object") ELSE Num(x)] :
        t \in {Cls("item"), Id("box"), Cls("none"), Empty},
        n \in {25, 50}, x \in {Null, 25, 50, 150}}

RECURSIVE ListsOf(_, _)
ListsOf(S, n) ==
    IF n = 0 THEN {<<>>}
    ELSE {Append(l, r) : l \in ListsOf(S, n - 1), r \in S}

\* the lists of n visibility rules
PoolDeclarations(n) == ListsOf(PoolRules, n)

InitPool ==
    \E n \in 1..MaxPoolRules, loading \in BOOLEAN : \E raw \in PoolDeclarations(n) :
        /\ initialConfigs = ArrayOf(raw)
        /\ StateIs(Constructor(ArrayOf(raw), loading))
        /\ lastEvent = Event("construct", NoElem, 0, ReadyState(loading), 0)
        /\ nEvents = 0

NextPool == DOMContentLoaded

SpecPool == InitPool /\ [][NextPool]_vars

(***************************************************************************)
(* Setup: lists of declarations with invalid fields, repeat counts,        *)
(* pairing attributes and conflicting class lists, and an argument that is *)
(* not an array.                                                           *)
(***************************************************************************)
\* sound declarations before, and after, the declaration under test
MaxSiblings == 1

\* declarations with one field the normalizer has to repair, or a trigger
\* selector that matches nothing
ProblemRules ==
    {[BaseRule EXCEPT !.easingMode = "linear"],
     [BaseRule EXCEPT !.addClasses = NotAnArray],
     [BaseRule EXCEPT !.removeClasses = NotAnArray],
     [BaseRule EXCEPT !.topAddClasses = NotAnArray],
     [BaseRule EXCEPT !.repeatConfiguration = Num(0)],
     [BaseRule EXCEPT !.repeatConfiguration = NotANumber("string")],
     [BaseRule EXCEPT !.repeatConfiguration = NaN],
     [BaseRule EXCEPT !.triggerElement = Cls("none")],
     [BaseRule EXCEPT !.eventName = "hover", !.triggerElement = Id("none")],
     [BaseRule EXCEPT !.eventName = "scrollInView", !.triggerElement = Cls("none")]}

\* visibility rules with valid and invalid thresholds
ThresholdRules ==
    {[BaseRule EXCEPT !.eventName = "scrollInView", !.entryThreshold = n] :
        n \in {Num(0), Num(100), Num(-5), Num(150), NaN, NotANumber("string")}}
    \cup
    {[BaseRule EXCEPT !.eventName = "scrollInView", !.entryThreshold = Num(50),
                      !.exitThreshold = x] :
        x \in {Num(0), Num(100), Num(-5), Num(101), NaN, NotANumber("undefined")}}

\* repeated rules: selectors with and without a numeric suffix, and ""
RepeatRules ==
    {[BaseRule EXCEPT !.repeatConfiguration = Num(3)],
     [BaseRule EXCEPT !.repeatConfiguration = Num(3), !.triggerElement = Id("t"),
                      !.parentElement = Id("box")],
     [BaseRule EXCEPT !.repeatConfiguration = Num(3), !.parentElement = Empty,
                      !.triggerElement = StrValue(<<"t", "-", "2">>)],
     [BaseRule EXCEPT !.repeatConfiguration = Num(2), !.parentElement = Empty,
                      !.triggerElement = StrValue(<<"t", "-", "3">>)],
     [BaseRule EXCEPT !.repeatConfiguration = Num(2), !.parentElement = Empty,
                      !.triggerElement = StrValue(<<"t", "-", "1", "2">>)],
     [BaseRule EXCEPT !.repeatConfiguration = Frac(5, 2), !.triggerElement = Id("t")],
     [BaseRule EXCEPT !.eventName = "load", !.repeatConfiguration = Num(2),
                      !.triggerElement = Empty, !.parentElement = Empty]}

\* rules with pairing attributes: both declared, or one only
PairRules ==
    {[BaseRule EXCEPT !.eventName = n, !.parentAttribut = a[1], !.triggerAttribut = a[2],
                      !.repeatConfiguration = Num(2),
                      !.parentElement = Empty, !.triggerElement = Id("t")] :
        n \in {"click", "scrollInView"},
        a \in {<<(<<"data-p">>), (<<"data-t">>)>>, <<(<<"data-t">>), (<<"data-p">>)>>,
               <<(<<"data-x">>), (<<"data-x">>)>>, <<(<<"data-t">>), (<<"data-t">>)>>,
               <<(<<"data-p">>), (<<"data-none">>)>>, <<(<<"data-p">>), (<<>>)>>}}

\* rules with topAddClasses and what it conflicts with
ConflictRules ==
    {[BaseRule EXCEPT !.eventName = n, !.topAddClasses = ArrayOf(<<t>>),
                      !.removeClasses = r, !.switchAction = sw] :
        n \in {"hover", "scrollInView"}, t \in {<<"past">>, <<".">>},
        r \in {ArrayOf(<<<<"old">>>>), ArrayOf(<<>>)}, sw \in BOOLEAN}

\* rules whose class lists need cleaning: labels with a marker ".", with
\* spaces around, with several dots, empty ones
CleanRules ==
    {[BaseRule EXCEPT !.addClasses = ArrayOf(a), !.removeClasses = ArrayOf(r)] :
        a \in {<<(<<".", "class1">>), (<<"class2">>), (<<" ", "class3", " ">>), (<<>>)>>,
               <<(<<" ", ".", "a">>), (<<".", " ", "b">>), (<<".">>), (<<" ">>)>>,
               <<(<<".", ".", "a">>)>>,
               <<(<<"a", ".", "b">>)>>},
        r \in {<<(<<"old">>)>>, <<(<<".", "old", " ">>), (<<" ">>), (<<".", " ", ".">>)>>}}

SetupRules ==
    ProblemRules \cup ThresholdRules \cup RepeatRules \cup PairRules \cup ConflictRules
        \cup CleanRules

\* declarations without a flaw: one per kind of trigger, and a replicated one
SoundRules ==
    {BaseRule,
     [BaseRule EXCEPT !.eventName = "hover", !.triggerElement = Id("box")],
     [BaseRule EXCEPT !.eventName = "scrollInView", !.entryThreshold = Num(50)],
     [BaseRule EXCEPT !.repeatConfiguration = Num(2), !.triggerElement = Id("t")]}

\* the lists of n sound declarations
Siblings(n) == ListsOf(SoundRules, n)

\* a declaration of SetupRules with nb sound declarations before it and na
\* after it, and the empty list
SetupDeclarations(nb, na) ==
    {before \o <<r>> \o after :
        before \in Siblings(nb), after \in Siblings(na), r \in SetupRules} \cup {<<>>}

InitSetup ==
    \E nb \in 0..MaxSiblings, na \in 0..MaxSiblings, loading \in BOOLEAN :
      \E configs \in {ArrayOf(raw) : raw \in SetupDeclarations(nb, na)} \cup {NotAnArray} :
        /\ initialConfigs = configs
        /\ StateIs(Constructor(configs, loading))
        /\ lastEvent = Event("construct", NoElem, 0, ReadyState(loading), 0)
        /\ nEvents = 0

NextSetup == DOMContentLoaded

SpecSetup == InitSetup /\ [][NextSetup]_vars

(***************************************************************************)
(* Selection: one click rule over the five .item / .old elements of the    *)
(* document, or the one inside #box, with start, end and frequency varied. *)
(***************************************************************************)
SelectRules ==
    {[BaseRule EXCEPT !.triggerElement = Id("box"), !.parentElement = p, !.targetClass = t,
                      !.start = s, !.end = e, !.frequency = f] :
        p \in {Empty, Id("box")}, t \in {<<".", "item">>, <<".", "old">>},
        s \in {1, 2, 3}, e \in {0, 2, 4}, f \in {1, 2, 3}}

InitSelect ==
    \E r \in SelectRules, loading \in BOOLEAN :
        /\ initialConfigs = ArrayOf(<<r>>)
        /\ StateIs(Constructor(ArrayOf(<<r>>), loading))
        /\ lastEvent = Event("construct", NoElem, 0, ReadyState(loading), 0)
        /\ nEvents = 0

NextSelect ==
    \/ DOMContentLoaded
    \/ \E e \in Elems : Click(e)
    \/ Frame

SpecSelect == InitSelect /\ [][NextSelect]_vars

(***************************************************************************)
(* Counts: one click rule on #box over the .item elements, with the repeat *)
(* count and the frequency declared as numbers that are no positive        *)
(* integers.                                                               *)
(***************************************************************************)
StrideRules ==
    {[BaseRule EXCEPT !.triggerElement = Id("box"), !.parentElement = Empty,
                      !.repeatConfiguration = n, !.start = s, !.frequency = f] :
        n \in {Num(1), Num(0), Frac(5, 2), NotANumber("string")},
        s \in {1, 2}, f \in {-2, 0, 1, 2}}

InitStride ==
    \E r \in StrideRules, loading \in BOOLEAN :
        /\ initialConfigs = ArrayOf(<<r>>)
        /\ StateIs(Constructor(ArrayOf(<<r>>), loading))
        /\ lastEvent = Event("construct", NoElem, 0, ReadyState(loading), 0)
        /\ nEvents = 0

NextStride ==
    \/ DOMContentLoaded
    \/ \E e \in Elems : Click(e)
    \/ Frame

SpecStride == InitStride /\ [][NextStride]_vars

(***************************************************************************)
(* Several rules: a declaration that is replicated (#t and #t-2) or paired  *)
(* by attributes, for every kind of trigger, before a click rule on #box.  *)
(***************************************************************************)
\* the number of trigger events of a run with several rules
MaxManyEvents == 3

ManyRules ==
    {[BaseRule EXCEPT !.repeatConfiguration = Num(2), !.triggerElement = Id("t"),
                      !.parentElement = Empty, !.debounce = 0],
     [BaseRule EXCEPT !.repeatConfiguration = Num(2), !.triggerElement = Id("t"),
                      !.parentElement = Empty, !.debounce = 100],
     [BaseRule EXCEPT !.parentAttribut = <<"data-p">>, !.triggerAttribut = <<"data-t">>,
                      !.parentElement = Empty, !.triggerElement = Id("t")],
     [BaseRule EXCEPT !.eventName = "hover", !.repeatConfiguration = Num(2),
                      !.triggerElement = Id("t"), !.parentElement = Empty],
     [BaseRule EXCEPT !.eventName = "scrollInView", !.repeatConfiguration = Num(2),
                      !.triggerElement = Id("t"), !.parentElement = Empty,
                      !.entryThreshold = Num(50), !.exitThreshold = Num(25)]}

ManyDeclarations ==
    {<<r, [BaseRule EXCEPT !.triggerElement = Id("box")]>> : r \in ManyRules}

InitMany ==
    \E raw \in ManyDeclarations, loading \in BOOLEAN :
        /\ initialConfigs = ArrayOf(raw)
        /\ StateIs(Constructor(ArrayOf(raw), loading))
        /\ lastEvent = Event("construct", NoElem, 0, ReadyState(loading), 0)
        /\ nEvents = 0

NextMany ==
    \/ DOMContentLoaded
    \/ nEvents < MaxManyEvents /\ \E e \in Elems : Click(e)
    \/ /\ nEvents < MaxManyEvents
       /\ \E e \in Elems, type \in {"mouseenter", "mouseleave"} : Hover(e, type)
    \/ /\ nEvents < MaxManyEvents
       /\ \E o \in DOMAIN observers, e \in Elems, r \in {0, 50} :
            Crossing(o, e, r, "inside")
    \/ Frame
    \/ \E i \in DOMAIN deb, w \in {"add", "remove"} : Timer(i, w)

SpecMany == InitMany /\ [][NextMany]_vars

(***************************************************************************)
(* Containers: a click rule on #t, single or replicated (#t-2), with a     *)
(* container selector that resolves (#box, .wrap) or matches nothing, as   *)
(* the suffixed selectors of the second replica do.                        *)
(***************************************************************************)
ScopeRules ==
    {[BaseRule EXCEPT !.triggerElement = Id("t"), !.parentElement = p,
                      !.repeatConfiguration = Num(n)] :
        p \in {Id("box"), Cls("wrap"), Id("none"), Cls("none")}, n \in {1, 2}}

InitScope ==
    \E r \in ScopeRules, loading \in BOOLEAN :
        /\ initialConfigs = ArrayOf(<<r>>)
        /\ StateIs(Constructor(ArrayOf(<<r>>), loading))
        /\ lastEvent = Event("construct", NoElem, 0, ReadyState(loading), 0)
        /\ nEvents = 0

NextScope ==
    \/ DOMContentLoaded
    \/ \E e \in Elems : Click(e)
    \/ Frame

SpecScope == InitScope /\ [][NextScope]_vars

(***************************************************************************)
(* No trigger: a click, hover or visibility rule declared without a        *)
(* trigger selector, before or after a sound declaration.                  *)
(***************************************************************************)
UntriggeredRules ==
    {[BaseRule EXCEPT !.eventName = n, !.triggerElement = Empty] :
        n \in {"click", "hover", "scrollInView"}}

UntriggeredDeclarations ==
    {<<r, sound>> : r \in UntriggeredRules, sound \in SoundRules}
        \cup {<<sound, r>> : r \in UntriggeredRules, sound \in SoundRules}

InitUntriggered ==
    \E raw \in UntriggeredDeclarations, loading \in BOOLEAN :
        /\ initialConfigs = ArrayOf(raw)
        /\ StateIs(Constructor(ArrayOf(raw), loading))
        /\ lastEvent = Event("construct", NoElem, 0, ReadyState(loading), 0)
        /\ nEvents = 0

NextUntriggered ==
    \/ DOMContentLoaded
    \/ \E e \in Elems : Click(e)
    \/ \E e \in Elems, type \in {"mouseenter", "mouseleave"} : Hover(e, type)
    \/ Frame

SpecUntriggered == InitUntriggered /\ [][NextUntriggered]_vars

(***************************************************************************)
(* The executor: one hover rule whose trigger (#box) is no target, over    *)
(* the targets of the document or of #box, with and without topAddClasses, *)
(* while the page scrolls.  Pointer moves ask for apply and remove passes  *)
(* in any order, also the same pass several times in a row.                *)
(***************************************************************************)
ExecRules ==
    {[BaseRule EXCEPT !.eventName = "hover", !.triggerElement = Id("box"),
                      !.parentElement = p, !.targetClass = t,
                      !.start = x[1], !.end = x[2], !.frequency = x[3],
                      !.topAddClasses = ArrayOf(top)] :
        p \in {Empty, Id("box")}, t \in {<<".", "item">>, <<".", "old">>},
        x \in {<<1, 0, 1>>, <<1, 1, 1>>, <<2, 4, 2>>},
        top \in {<<>>, <<<<"past">>>>}}

\* the elements the viewport may be scrolled to
ScrollStops == {2, 4}

\* the positions with the viewport over element k: the elements before k
\* are above it, those after k below it (#box is where its child is)
ScrolledTo(k) ==
    [e \in Elems |-> LET x == IF e = 1 THEN 2 ELSE e
                     IN IF x < k THEN "above" ELSE IF x = k THEN "inside" ELSE "below"]

\* the user scrolls the page to element k (no element is observed here, so
\* no crossing is notified)
Scroll(k) ==
    /\ nEvents < MaxEvents
    /\ pos # ScrolledTo(k)
    /\ Becomes([M EXCEPT !.pos = ScrolledTo(k)])
    /\ lastEvent' = Event("scroll", k, 0, "", 0)
    /\ nEvents' = nEvents + 1
    /\ UNCHANGED initialConfigs

InitExec ==
    \E r \in ExecRules :
        /\ initialConfigs = ArrayOf(<<r>>)
        /\ StateIs([Constructor(ArrayOf(<<r>>), FALSE) EXCEPT
                        !.lastMutation = [e \in Elems |-> NoMutation]])
        /\ lastEvent = Event("construct", NoElem, 0, ReadyState(FALSE), 0)
        /\ nEvents = 0

NextExec ==
    \/ \E e \in Elems, type \in {"mouseenter", "mouseleave"} : Hover(e, type)
    \/ \E k \in ScrollStops : Scroll(k)
    \/ Frame

SpecExec == InitExec /\ [][NextExec]_vars

(***************************************************************************)
(* The live document: the rules of the selection, while another script     *)
(* takes elements out of the document and puts them back, before and after *)
(* setup.                                                                  *)
(***************************************************************************)
\* parent.removeChild(e) by another script
RemoveChild(e) ==
    /\ nEvents < MaxEvents
    /\ e \in Loose \cap attached
    /\ Becomes([M EXCEPT !.attached = @ \ {e}])
    /\ lastEvent' = Event("removeChild", e, 0, "", 0)
    /\ nEvents' = nEvents + 1
    /\ UNCHANGED initialConfigs

\* parent.insertBefore(e, ...) by another script, at the place e was taken from
InsertBefore(e) ==
    /\ nEvents < MaxEvents
    /\ e \in Loose \ attached
    /\ Becomes([M EXCEPT !.attached = @ \cup {e}])
    /\ lastEvent' = Event("insertBefore", e, 0, "", 0)
    /\ nEvents' = nEvents + 1
    /\ UNCHANGED initialConfigs

InitLive ==
    \E r \in SelectRules, loading \in BOOLEAN :
        /\ initialConfigs = ArrayOf(<<r>>)
        /\ StateIs(Constructor(ArrayOf(<<r>>), loading))
        /\ lastEvent = Event("construct", NoElem, 0, ReadyState(loading), 0)
        /\ nEvents = 0

NextLive ==
    \/ DOMContentLoaded
    \/ \E e \in Elems : Click(e)
    \/ Frame
    \/ \E e \in Loose : RemoveChild(e)
    \/ \E e \in Loose : InsertBefore(e)

SpecLive == InitLive /\ [][NextLive]_vars

(***************************************************************************)
(* Properties.                                                             *)
(***************************************************************************)
Rules == DOMAIN classConfigs

IsVisibility(i) == classConfigs[i].eventName = "scrollInView"
IsClick(i) == classConfigs[i].eventName = "click"

\* the log entries of the last step with the given op, rule and action
Entries(l, op, i, act) ==
    {k \in 1..Len(l) : l[k].op = op /\ l[k].rule = i /\ l[k].act = act}

\* every frame callback has run
Flushed == rafQueue = <<>>

\* C1: a scrollInView rule with once = true runs the apply pass
\* (_initClasses(config, "add")) at most once over any sequence of crossing
\* notifications, and exactly once as soon as an apply it was asked for is
\* no longer pending.
OnceAppliesOnce ==
    \A i \in Rules :
        (IsVisibility(i) /\ classConfigs[i].once) =>
            /\ hist[i].applyCount <= 1
            /\ (deb[i].add.everCalled /\ ~deb[i].add.rafId) => hist[i].applyCount = 1

\* a once visibility rule has applied, and a later apply request ran the
\* debounced function again without a pass
OnceAppliesOnceWitness ==
    \E i \in Rules :
        /\ IsVisibility(i) /\ classConfigs[i].once
        /\ hist[i].applyCount = 1
        /\ Entries(log, "exec", i, "add") # {}
        /\ Entries(log, "pass", i, "add") = {}

\* C2: once a scrollInView rule with once = true has applied (and the frame
\* callbacks have run), the rule is no longer on its trigger's side list and
\* its watcher no longer observes the trigger.
OnceUnregisters ==
    \A i \in Rules :
        (IsVisibility(i) /\ classConfigs[i].once /\ hist[i].applyCount >= 1 /\ Flushed) =>
            LET e == binding[i].trigger
            IN /\ \A k \in 1..Len(comboClassConfigs[e].list) :
                      comboClassConfigs[e].list[k].conf # i
               /\ e \notin observers[binding[i].observer].observed

\* C3: for a click rule with once = false whose activations were each
\* separated by a frame, the rule is Active exactly after an odd number of
\* activations, and the odd activations have requested apply and the even
\* ones remove (run so far, or pending in the debouncer).
ClickToggles ==
    \A i \in Rules :
        (IsClick(i) /\ ~classConfigs[i].once /\ hist[i].spaced) =>
            /\ classConfigs[i].classesAdded = (hist[i].clicks % 2 = 1)
            /\ hist[i].applyCount + deb[i].add.pendingReqs = (hist[i].clicks + 1) \div 2
            /\ hist[i].removeCount + deb[i].remove.pendingReqs = hist[i].clicks \div 2
            /\ deb[i].add.pendingReqs + deb[i].remove.pendingReqs <= 1

\* three spaced activations: apply, remove, apply have all run
ClickTogglesWitness ==
    \E i \in Rules :
        /\ IsClick(i) /\ ~classConfigs[i].once /\ hist[i].spaced
        /\ hist[i].clicks = 3 /\ hist[i].applyCount = 2 /\ hist[i].removeCount = 1
        /\ classConfigs[i].classesAdded

\* C4: for a click rule with once = true, once it was activated (and the
\* frame callbacks have run) the apply pass has run, no remove pass has run,
\* and the rule is Active.
ClickOnceApplies ==
    \A i \in Rules :
        (IsClick(i) /\ classConfigs[i].once /\ hist[i].clicks >= 1) =>
            /\ hist[i].removeCount = 0
            /\ classConfigs[i].classesAdded
            /\ (Flushed /\ ~deb[i].add.timeoutId) => hist[i].applyCount >= 1

\* C5: with debounce = 0, a frame runs the debounced function exactly once
\* if it was called (any number of times) since it last ran, and not at all
\* otherwise.
DebounceCoalesces ==
    [][lastEvent'.type = "frame" =>
        \A i \in Rules, w \in {"add", "remove"} :
            classConfigs[i].debounce = 0 =>
                Cardinality(Entries(log', "exec", i, w))
                    = IF deb[i][w].pendingReqs >= 1 THEN 1 ELSE 0]_vars

\* a frame has run once a function that was called three times
DebounceCoalescesWitness ==
    /\ lastEvent.type = "frame"
    /\ \E k \in 1..Len(log) :
          /\ log[k].op = "exec" /\ log[k].n >= 3
          /\ classConfigs[log[k].rule].debounce = 0

\* C6: with debounce > 0, when the quiet period ends (the timer expires) the
\* burst of calls it closes has run the debounced function exactly once.
TrailingEdgeDebounce ==
    lastEvent.type = "timer" =>
        deb[lastEvent.rule][lastEvent.act].burstExecs = 1

\* C7: after every frame no call of a debounced function is left without a
\* run of the function.
NoStarvation ==
    lastEvent.type = "frame" =>
        \A i \in Rules, w \in {"add", "remove"} : deb[i][w].pendingReqs = 0

\* a frame ran the function of a debouncer with a delay a second time within
\* one burst, while its quiet period was still running
NoStarvationWitness ==
    /\ lastEvent.type = "frame"
    /\ \E i \in Rules, w \in {"add", "remove"} :
          /\ classConfigs[i].debounce > 0
          /\ Entries(log, "exec", i, w) # {}
          /\ deb[i][w].timeoutId
          /\ deb[i][w].burstExecs >= 2

\* the threshold set of a rule
ThresholdSet(i) ==
    {classConfigs[i].entryThreshold}
        \cup (IF classConfigs[i].exitThreshold = Null THEN {} ELSE {classConfigs[i].exitThreshold})

BoundVisibility == {i \in Rules : IsVisibility(i) /\ binding[i].listening}

\* C8: once setup has run, the Pool holds one watcher per key, every bound
\* visibility rule uses the pooled watcher whose thresholds are the rule's
\* threshold set, and two bound visibility rules use the same watcher exactly
\* if their threshold sets are equal; after a setup that completed, the
\* Pool holds exactly one watcher per distinct threshold set among them.
SharedWatcher ==
    /\ \A r1, r2 \in scrollObservers :
          (r1.key = r2.key \/ r1.observer = r2.observer) => r1 = r2
    /\ \A i \in BoundVisibility :
          \E r \in scrollObservers :
              /\ r.observer = binding[i].observer
              /\ {r.key[k] : k \in 1..Len(r.key)} = ThresholdSet(i)
              /\ Len(r.key) = Cardinality(ThresholdSet(i))
    /\ \A i, j \in BoundVisibility :
          (ThresholdSet(i) = ThresholdSet(j)) <=> (binding[i].observer = binding[j].observer)
    /\ phase = "ready" =>
          /\ Cardinality(scrollObservers)
                = Cardinality({ThresholdSet(i) : i \in BoundVisibility})
          /\ Len(observers) = Cardinality(scrollObservers)

\* entry 50 / exit 25 and entry 25 / exit 50 are bound to one watcher
SharedWatcherWitness ==
    /\ phase = "ready"
    /\ Cardinality(scrollObservers) = 1
    /\ \E i, j \in BoundVisibility :
          /\ classConfigs[i].entryThreshold = 50 /\ classConfigs[i].exitThreshold = 25
          /\ classConfigs[j].entryThreshold = 25 /\ classConfigs[j].exitThreshold = 50
          /\ binding[i].observer = binding[j].observer

\* the rules on the side list of element e
SideRules(e) ==
    {comboClassConfigs[e].list[k].conf : k \in 1..Len(comboClassConfigs[e].list)}

\* C9: a crossing notification with ratio r asks a rule without
\* topAddClasses for apply iff r >= entryThreshold/100 and for remove iff
\* exitThreshold is set and r < exitThreshold/100; with switchAction the two
\* are swapped.
VisibilityBranching ==
    lastEvent.type = "crossing" =>
        \A i \in SideRules(lastEvent.elem) :
            classConfigs[i].topAddClasses = <<>> =>
                LET c == classConfigs[i]
                    entered == lastEvent.ratio >= c.entryThreshold
                    exited == c.exitThreshold # Null /\ lastEvent.ratio < c.exitThreshold
                    apply == Entries(log, "request", i, "add") # {}
                    remove == Entries(log, "request", i, "remove") # {}
                IN IF c.switchAction
                   THEN (remove <=> entered) /\ (apply <=> exited)
                   ELSE (apply <=> entered) /\ (remove <=> exited)

\* a crossing at exactly the entry threshold of a rule with switchAction
\* has asked for remove and not for apply
VisibilityBranchingWitness ==
    /\ lastEvent.type = "crossing"
    /\ \E i \in SideRules(lastEvent.elem) :
          /\ classConfigs[i].topAddClasses = <<>> /\ classConfigs[i].switchAction
          /\ lastEvent.ratio = classConfigs[i].entryThreshold
          /\ Entries(log, "request", i, "remove") # {}
          /\ Entries(log, "request", i, "add") = {}

\* C10: for a visibility rule with topAddClasses = {past} and addClasses =
\* {future} whose trigger is its target, after a crossing notification and
\* with the frame callbacks run, the element carries past and not future if
\* it is fully above the viewport, and future and not past if it is fully
\* below.
DirectionAwareLabels ==
    \A i \in Rules :
        (/\ IsVisibility(i) /\ binding[i].listening
         /\ classConfigs[i].topAddClasses = <<<<"past">>>>
         /\ classConfigs[i].addClasses = <<<<"future">>>>
         /\ ~classConfigs[i].once
         /\ nEvents >= 1 /\ Flushed) =>
            LET e == binding[i].trigger
            IN /\ pos[e] = "above" =>
                      (<<"past">> \in classList[e] /\ <<"future">> \notin classList[e])
               /\ pos[e] = "below" =>
                      (<<"future">> \in classList[e] /\ <<"past">> \notin classList[e])

\* C11: a crossing notification asks a rule with topAddClasses for apply iff
\* its element is fully above the viewport and for remove iff it is fully
\* below, whatever the ratio and the thresholds; with the element neither
\* above nor below it asks for nothing, and the notification itself changes
\* no class.
TopAddTriState ==
    lastEvent.type = "crossing" =>
        /\ \A k \in 1..Len(log) : log[k].op # "mutate"
        /\ \A i \in SideRules(lastEvent.elem) :
              classConfigs[i].topAddClasses # <<>> =>
                  /\ Entries(log, "request", i, "add") # {} <=> lastEvent.act = "above"
                  /\ Entries(log, "request", i, "remove") # {} <=> lastEvent.act = "below"

\* a crossing with the element inside the viewport at a ratio above the
\* entry threshold has asked a rule with topAddClasses for nothing
TopAddTriStateWitness ==
    /\ lastEvent.type = "crossing" /\ lastEvent.act = "inside"
    /\ \E i \in SideRules(lastEvent.elem) :
          /\ classConfigs[i].topAddClasses # <<>>
          /\ lastEvent.ratio > classConfigs[i].entryThreshold
          /\ log = <<>>

\* the hover rules listening on element e
HoverRulesOn(e) ==
    {i \in Rules : /\ classConfigs[i].eventName = "hover"
                   /\ binding[i].listening /\ binding[i].trigger = e}

\* C12: a pointer-enter asks a hover rule for apply (once, and not for
\* remove) if switchAction is false and for remove (once, and not for apply)
\* if it is true; a pointer-leave asks for the opposite; classesAdded plays
\* no part.
HoverMapping ==
    lastEvent.type \in {"mouseenter", "mouseleave"} =>
        \A i \in HoverRulesOn(lastEvent.elem) :
            LET asked == IF (lastEvent.type = "mouseenter") = classConfigs[i].switchAction
                         THEN "remove" ELSE "add"
                other == IF asked = "add" THEN "remove" ELSE "add"
            IN /\ Cardinality(Entries(log, "request", i, asked)) = 1
               /\ Entries(log, "request", i, other) = {}

\* a pointer-enter on a rule without switchAction whose classes are already
\* on has asked for apply again
HoverMappingWitness ==
    /\ lastEvent.type = "mouseenter"
    /\ \E i \in HoverRulesOn(lastEvent.elem) :
          /\ ~classConfigs[i].switchAction
          /\ classConfigs[i].classesAdded
          /\ hist[i].applyCount >= 1
          /\ Entries(log, "request", i, "add") # {}

\* C13: every invocation of the user's callback comes right after the class
\* change of that action on that element, in the same step (the frame
\* callback of _initClasses), and its action is "add" or "remove".
CallbackPostMutation ==
    \A k \in 1..Len(log) :
        log[k].op = "callback" =>
            /\ log[k].act \in {"add", "remove"}
            /\ k > 1
            /\ log[k - 1].op = "mutate"
            /\ log[k - 1].rule = log[k].rule
            /\ log[k - 1].act = log[k].act
            /\ log[k - 1].elem = log[k].elem

\* the element the trigger of rule i resolves to
ResolvedTrigger(i) ==
    LET t == classConfigs[i].triggerElement
    IN IF IsElement(t) THEN t.elem ELSE GetElement(t.str, classList, attached)

HasHandler(i) == classConfigs[i].eventName \in {"click", "hover", "scrollInView"}

\* C14: setup never throws on a list whose declarations have invalid easing,
\* thresholds, class lists or repeat counts, or a trigger selector that
\* matches nothing; when it has run, every declaration without pairing
\* attributes is expanded, every rule whose declared trigger resolves is
\* bound to it (a visibility rule is on the side list of its trigger, which
\* is observed), and a rule whose declared trigger matches nothing has no
\* listener, is on no side list, and no watcher was made for it.
SiblingIsolation ==
    /\ phase # "failed"
    /\ phase = "ready" =>
          /\ \A k \in 1..Len(initialConfigs.items) :
                LET d == initialConfigs.items[k]
                IN (d.triggerAttribut = <<>> \/ d.parentAttribut = <<>>) =>
                       \E i \in Rules : classConfigs[i].declaration = k
          /\ \A i \in Rules :
                /\ classConfigs[i].easingMode \in supportedEasings
                /\ (HasHandler(i) /\ Truthy(classConfigs[i].triggerElement)) =>
                      IF ResolvedTrigger(i) # NoElem
                      THEN /\ binding[i].listening
                           /\ binding[i].trigger = ResolvedTrigger(i)
                           /\ IsVisibility(i) =>
                                 /\ i \in SideRules(binding[i].trigger)
                                 /\ \E o \in DOMAIN observers :
                                       binding[i].trigger \in observers[o].observed
                      ELSE /\ ~binding[i].created /\ ~binding[i].listening
                           /\ binding[i].observer = 0
                           /\ \A e \in Elems : i \notin SideRules(e)
          /\ \A r \in scrollObservers :
                \E i \in BoundVisibility : binding[i].observer = r.observer

\* setup has run over a visibility rule whose trigger selector matches
\* nothing, which was skipped, and has bound the rule declared after it
SiblingIsolationWitness ==
    /\ phase = "ready"
    /\ \E i, j \in Rules :
          /\ i < j
          /\ IsVisibility(i) /\ Truthy(classConfigs[i].triggerElement)
          /\ ResolvedTrigger(i) = NoElem /\ ~binding[i].created
          /\ classConfigs[j].declaration > classConfigs[i].declaration
          /\ binding[j].listening

\* C15: the constructor throws exactly if its argument is not an array, and
\* then, and ever after, no rule is expanded, no listener or watcher
\* exists, no element has a side list and no frame callback is registered.
FatalInput ==
    /\ phase = "threw" <=> ~initialConfigs.isArray
    /\ ~initialConfigs.isArray =>
          /\ classConfigs = <<>> /\ binding = <<>> /\ deb = <<>>
          /\ observers = <<>> /\ scrollObservers = {}
          /\ \A e \in Elems : ~comboClassConfigs[e].defined
          /\ rafQueue = <<>>
          /\ classList = InitialClassList

\* the constructor was given something that is not an array, and threw
FatalInputWitness ==
    /\ ~initialConfigs.isArray
    /\ phase = "threw"
    /\ lastEvent.type = "construct"

\* the declarations with both pairing attributes
PairingDeclarations ==
    {k \in 1..Len(initialConfigs.items) :
        /\ initialConfigs.items[k].parentAttribut # <<>>
        /\ initialConfigs.items[k].triggerAttribut # <<>>}

\* the elements carrying an attribute, and the value an element carries
Carriers(attribute) == {e \in Elems : attribute[1] \in DOMAIN Attributes(e)}
ValueOf(e, attribute) == Attributes(e)[attribute[1]]

\* the rules made from declaration k
RulesOf(k) == {i \in Rules : classConfigs[i].declaration = k}

\* the rules made from declaration k for the pair (container c, trigger t)
PairedRulesOf(k, c, t) ==
    {i \in RulesOf(k) : /\ classConfigs[i].parentElement = ElemValue(c)
                        /\ classConfigs[i].triggerElement = ElemValue(t)}

\* every rule made from a pairing declaration is a pair of elements with
\* repeatConfiguration 1 and no pairing attributes
PairsOnly(k) ==
    \A i \in RulesOf(k) :
        /\ IsElement(classConfigs[i].parentElement)
        /\ IsElement(classConfigs[i].triggerElement)
        /\ classConfigs[i].repeatConfiguration = Num(1)
        /\ classConfigs[i].parentAttribut = <<>>
        /\ classConfigs[i].triggerAttribut = <<>>

\* C16 as stated: for a declaration with both pairing attributes there is
\* exactly one rule per (container, trigger) pair of elements carrying the
\* same attribute value, and none for any other pair (so a value v carried
\* by N containers and M triggers yields N x M rules).
PairingCrossProduct ==
    phase = "ready" =>
        \A k \in PairingDeclarations :
            LET d == initialConfigs.items[k]
            IN /\ PairsOnly(k)
               /\ \A c \in Carriers(d.parentAttribut), t \in Carriers(d.triggerAttribut) :
                     Cardinality(PairedRulesOf(k, c, t))
                         = IF ValueOf(c, d.parentAttribut) = ValueOf(t, d.triggerAttribut)
                           THEN 1 ELSE 0

\* C16, amended: exactly one rule per (container, trigger) pair of elements
\* whose attribute values are equal after trimming and not empty, and none
\* for any other pair; for each such value v the rules made are N x M, N and
\* M counting the containers and triggers whose trimmed value is v.
PairingByTrimmedValue ==
    phase = "ready" =>
        \A k \in PairingDeclarations :
            LET d == initialConfigs.items[k]
                cs == Carriers(d.parentAttribut)
                ts == Carriers(d.triggerAttribut)
                cv(c) == Trim(ValueOf(c, d.parentAttribut))
                tv(t) == Trim(ValueOf(t, d.triggerAttribut))
            IN /\ PairsOnly(k)
               /\ \A c \in cs, t \in ts :
                     Cardinality(PairedRulesOf(k, c, t))
                         = IF cv(c) = tv(t) /\ cv(c) # <<>> THEN 1 ELSE 0
               /\ \A v \in ({cv(c) : c \in cs} \cup {tv(t) : t \in ts}) \ {<<>>} :
                     Cardinality({i \in RulesOf(k) :
                                     cv(classConfigs[i].parentElement.elem) = v})
                         = Cardinality({c \in cs : cv(c) = v})
                               * Cardinality({t \in ts : tv(t) = v})

\* a declaration pairing data-p with data-t has made four rules: the two
\* containers of value g1 (one of them written " g1") with the two triggers
\* of value g1
PairingByTrimmedValueWitness ==
    /\ phase = "ready"
    /\ \E k \in PairingDeclarations :
          /\ initialConfigs.items[k].parentAttribut = <<"data-p">>
          /\ initialConfigs.items[k].triggerAttribut = <<"data-t">>
          /\ Cardinality(RulesOf(k)) = 4
          /\ PairedRulesOf(k, 4, 3) # {}

\* the selector replica r of a declared selector is to have
ReplicaSelector(sel, r) ==
    IF r = 1 \/ sel = <<>> THEN sel
    ELSE LET suffix == <<"-">> \o Digits(r)
         IN IF Len(sel) >= Len(suffix)
               /\ \A n \in 1..Len(suffix) : sel[Len(sel) - Len(suffix) + n] = suffix[n]
            THEN sel
            ELSE sel \o suffix

\* C17: a declaration without both pairing attributes whose repeat count is
\* an integer N >= 1 makes exactly N rules, consecutive in classConfigs;
\* the first has the declared trigger and container selectors, the r-th
\* (r >= 2) has "-r" appended to each unless the selector already ends with
\* "-r", and an empty selector stays empty.
ReplicationSuffixes ==
    phase = "ready" =>
        \A k \in (1..Len(initialConfigs.items)) \ PairingDeclarations :
            LET d == initialConfigs.items[k]
                n == d.repeatConfiguration
            IN (n.type = "number" /\ ~n.nan /\ n.den = 1 /\ n.num >= 1) =>
                  /\ Cardinality(RulesOf(k)) = n.num
                  /\ \E first \in Rules :
                        /\ RulesOf(k) = first..(first + n.num - 1)
                        /\ \A r \in 1..n.num :
                              LET c == classConfigs[first + r - 1]
                              IN /\ c.triggerElement
                                      = StrValue(ReplicaSelector(d.triggerElement.str, r))
                                 /\ c.parentElement
                                      = StrValue(ReplicaSelector(d.parentElement.str, r))
                                 /\ c.repeatConfiguration = Num(1)

\* "t" declared twice has made "t", "t-2", and "t-2" declared three times
\* has made "t-2", "t-2", "t-2-3"
ReplicationSuffixesWitness ==
    /\ phase = "ready"
    /\ \E i \in Rules :
          /\ i + 1 \in Rules
          /\ classConfigs[i].triggerElement.str = <<"t">>
          /\ classConfigs[i + 1].triggerElement.str = <<"t", "-", "2">>
          /\ classConfigs[i + 1].declaration = classConfigs[i].declaration
    /\ \E i \in Rules :
          /\ i + 2 \in Rules
          /\ classConfigs[i].triggerElement.str = <<"t", "-", "2">>
          /\ classConfigs[i + 1].triggerElement.str = <<"t", "-", "2">>
          /\ classConfigs[i + 2].triggerElement.str = <<"t", "-", "2", "-", "3">>
          /\ classConfigs[i + 2].declaration = classConfigs[i].declaration

\* the elements a pass of rule i is to mutate: those at the 1-based
\* positions p of the target sequence, queried now, with p >= start,
\* (end = 0 or p <= end) and (p - start) mod frequency = 0, in order
SelectedTargets(i) ==
    LET c == classConfigs[i]
        targets == QuerySelectorAll(ParentOf(c, classList, attached), c.targetClass,
                                    classList, attached)
        positions == InOrder({p \in 1..Len(targets) :
                                 /\ p >= c.start
                                 /\ (c.end = 0 \/ p <= c.end)
                                 /\ (p - c.start) % c.frequency = 0})
    IN [n \in 1..Len(positions) |-> targets[positions[n]]]

\* the frame callbacks of the passes in q, and the class changes in log l,
\* as (rule, action, element) in order
QueuedMutations(q) ==
    LET cbs == SelectSeq(q, LAMBDA cb : cb.kind = "mutate")
    IN [n \in 1..Len(cbs) |-> <<cbs[n].rule, cbs[n].act, cbs[n].elem>>]

LoggedMutations(l) ==
    LET es == SelectSeq(l, LAMBDA e : e.op = "mutate")
    IN [n \in 1..Len(es) |-> <<es[n].rule, es[n].act, es[n].elem>>]

\* C18: a pass registers class changes for exactly the selected elements of
\* the target sequence as it is when the pass runs, and the next frame
\* changes the classes of exactly the elements registered.
Selection ==
    /\ [](\A i \in Rules, act \in {"add", "remove"} :
            Entries(log, "pass", i, act) # {} =>
                SelectSeq(QueuedMutations(rafQueue), LAMBDA x : x[1] = i /\ x[2] = act)
                    = [n \in 1..Len(SelectedTargets(i)) |-> <<i, act, SelectedTargets(i)[n]>>])
    /\ [][lastEvent'.type = "frame" => LoggedMutations(log') = QueuedMutations(rafQueue)]_vars

\* of the five targets, with start 2, end 4 and frequency 2, a frame has
\* changed the second and the fourth (elements 3 and 5) and no other
SelectionWitness ==
    /\ lastEvent.type = "frame"
    /\ \E i \in Rules :
          /\ classConfigs[i].start = 2 /\ classConfigs[i].end = 4
          /\ classConfigs[i].frequency = 2
          /\ LoggedMutations(log) = <<(<<i, "add", 3>>), (<<i, "add", 5>>)>>
          /\ {e \in Elems : <<"future">> \in classList[e]} = {3, 5}

\* a declared value is a number from 0 to 100
ValidPercent(value) ==
    /\ value.type = "number" /\ ~value.nan
    /\ 0 <= value.num /\ value.num <= 100 * value.den

\* C19: every expanded rule has an entryThreshold in 0..100 and an
\* exitThreshold that is null or in 0..100: the declared value if that is a
\* number from 0 to 100, and else 0 for entry and null for exit.
ThresholdRange ==
    \A i \in Rules :
        LET c == classConfigs[i]
            d == initialConfigs.items[c.declaration]
        IN /\ c.entryThreshold \in 0..100
           /\ c.exitThreshold \in {Null} \cup 0..100
           /\ c.entryThreshold
                 = IF ValidPercent(d.entryThreshold) THEN d.entryThreshold.num ELSE 0
           /\ c.exitThreshold
                 = IF ValidPercent(d.exitThreshold) THEN d.exitThreshold.num ELSE Null

\* a rule declared with entryThreshold 150 has 0, next to a rule that has
\* kept its entryThreshold 50
ThresholdRangeWitness ==
    /\ phase = "ready"
    /\ \E i, j \in Rules :
          /\ initialConfigs.items[classConfigs[i].declaration].entryThreshold = Num(150)
          /\ classConfigs[i].entryThreshold = 0
          /\ classConfigs[j].entryThreshold = 50

\* C20: every expanded rule with topAddClasses has no removeClasses and
\* switchAction false.
TopAddConflict ==
    \A i \in Rules :
        classConfigs[i].topAddClasses # <<>> =>
            /\ classConfigs[i].removeClasses = <<>>
            /\ ~classConfigs[i].switchAction

\* a rule declared with topAddClasses, removeClasses and switchAction has
\* been expanded
TopAddConflictWitness ==
    /\ phase = "ready"
    /\ \E i \in Rules :
          LET d == initialConfigs.items[classConfigs[i].declaration]
          IN /\ classConfigs[i].topAddClasses = <<<<"past">>>>
             /\ d.removeClasses.items # <<>>
             /\ d.switchAction

RECURSIVE StripLeadingDots(_)
StripLeadingDots(str) ==
    IF StartsWithDot(str) THEN StripLeadingDots(Tail(str)) ELSE str

\* a declared class list as it is to come out of the cleaning: the entries
\* trimmed and without their leading "." characters, in order, the empty
\* ones dropped; no entry of a value that is not an array
Cleaned(classes) ==
    IF classes.isArray
    THEN SelectSeq([k \in 1..Len(classes.items) |->
                        Trim(StripLeadingDots(Trim(classes.items[k])))],
                   LAMBDA cls : cls # <<>>)
    ELSE <<>>

\* a label is non-empty, has no space at either end and no leading "."
CleanLabel(cls) ==
    /\ cls # <<>>
    /\ Head(cls) # " " /\ cls[Len(cls)] # " "
    /\ Head(cls) # "."

\* C22: the class lists of every rule are the declared lists cleaned:
\* entries trimmed, leading "." characters stripped, order kept, empty
\* entries dropped (no entry for a value that is not an array), so that every
\* label is non-empty, has no surrounding whitespace and no leading ".".
LabelCleaning ==
    \A i \in Rules :
        LET declared == initialConfigs.items[classConfigs[i].declaration]
            config == classConfigs[i]
        IN /\ config.addClasses = Cleaned(declared.addClasses)
           /\ config.topAddClasses = Cleaned(declared.topAddClasses)
           /\ config.topAddClasses = <<>> => config.removeClasses = Cleaned(declared.removeClasses)
           /\ \A classes \in {config.addClasses, config.removeClasses, config.topAddClasses} :
                 \A k \in 1..Len(classes) : CleanLabel(classes[k])

\* no rule is expanded or bound, and nothing is scheduled
NothingSetUp ==
    /\ classConfigs = <<>> /\ binding = <<>> /\ deb = <<>>
    /\ observers = <<>> /\ scrollObservers = {}
    /\ \A e \in Elems : ~comboClassConfigs[e].defined
    /\ rafQueue = <<>>

\* C23: constructed with an array while the document is loading, the engine
\* has expanded and bound no rule until DOMContentLoaded; the signal's step
\* runs setup to its end, and no step follows it (setup runs once);
\* constructed with the document ready, setup is complete when the
\* constructor returns.
SetupDeferral ==
    /\ [](initialConfigs.isArray =>
            /\ phase = "loading" <=> (lastEvent.type = "construct" /\ lastEvent.act = "loading")
            /\ phase = "loading" => NothingSetUp
            /\ lastEvent.type = "construct" /\ lastEvent.act = "complete" => phase = "ready"
            /\ phase = "ready" =>
                  Len(classConfigs) >= Len(initialConfigs.items) \/ PairingDeclarations # {})
    /\ [][/\ phase = "loading" /\ phase' = "ready"
          /\ lastEvent'.type = "DOMContentLoaded"]_vars

\* the signal has come to an engine constructed with two declarations while
\* the document was loading: their rules are expanded and listen
SetupDeferralWitness ==
    /\ lastEvent.type = "DOMContentLoaded"
    /\ phase = "ready"
    /\ Len(initialConfigs.items) = 2
    /\ Len(classConfigs) >= 2
    /\ \A i \in Rules : binding[i].listening

\* rule i has been triggered: its listener has called a debounced function
Triggered(i) == deb[i].add.everCalled \/ deb[i].remove.everCalled

\* C24: once a rule with once = true has been triggered, a later click on,
\* or pointer move over, its trigger element runs nothing of the rule: no
\* request, pass or callback of the rule is in the step, and classesAdded
\* stays as it was.
OnceRemovesListener ==
    [][\A i \in Rules :
          /\ classConfigs[i].once
          /\ classConfigs[i].eventName \in {"click", "hover"}
          /\ Triggered(i)
          /\ lastEvent'.type \in {"click", "mouseenter", "mouseleave"}
          /\ lastEvent'.elem = binding[i].trigger
          => /\ \A k \in 1..Len(log') : log'[k].rule # i
             /\ classConfigs'[i].classesAdded = classConfigs[i].classesAdded]_vars

\* C25: when a click on the trigger element of a click rule has asked for
\* the apply pass, the rule's addClasses are on the trigger element as soon
\* as the click is dispatched, before any frame.
ClickAddsAtOnce ==
    lastEvent.type = "click" =>
        \A i \in Rules :
            /\ IsClick(i)
            /\ binding[i].listening
            /\ binding[i].trigger = lastEvent.elem
            /\ Entries(log, "request", i, "add") # {}
            => ClassSet(classConfigs[i].addClasses) \subseteq classList[lastEvent.elem]

(***************************************************************************)
(* ToggleHeight (src/unnamed/part_002): triggers that expand and collapse  *)
(* the height of their targets.  One configuration; its triggers, targets  *)
(* and rotate elements are known by their index in the configuration's     *)
(* lists (0-based, as in the code).                                        *)
(***************************************************************************)
MaxPanels == 3

\* expandedRotation, by default
ExpandedRotation == 90
\* the root font sizes of the page, before and after a resize
RootFontSizes == {16, 20}

Trigger(index) == <<"trigger", index>>
Target(index) == <<"target", index>>
\* element.scrollHeight: the content is higher than any collapsed height
ScrollHeight(element) == 100 + 10 * element[2]

\* the configurations of the page: every trigger has its target
ToggleConfigs ==
    {[isOpen |-> o, closeOthers |-> c, rotateSelector |-> r, nTriggers |-> n, nTargets |-> n,
      fontSizeMultiplier |-> f, expandedRotation |-> ExpandedRotation,
      currentOpenIndex |-> Null] :
        o \in BOOLEAN, c \in BOOLEAN, r \in BOOLEAN, f \in {1, 2}, n \in 1..MaxPanels}

\* the elements whose height the instance may set
ToggleElements(config) ==
    {Trigger(i) : i \in 0..(config.nTriggers - 1)} \cup
    {Target(i) : i \in 0..(config.nTargets - 1)}

\* new ToggleHeight(config): the styles are those of the markup, all targets
\* rendered at their full height
ToggleHeightConstructor(config, rootFontSize) ==
    [loaded |-> FALSE, config |-> config,
     height |-> [e \in ToggleElements(config) |-> ScrollHeight(e)],
     rotation |-> [i \in 0..(config.nTriggers - 1) |-> 0],
     rootFontSize |-> rootFontSize, activated |-> FALSE, resized |-> FALSE]

\* parseFloat(getCollapsedHeight(config))
GetCollapsedHeight(t) == t.rootFontSize * t.config.fontSizeMultiplier

\* config.targets[index] || trigger
TargetOf(config, index) ==
    IF index < config.nTargets THEN Target(index) ELSE Trigger(index)

\* rotate(rotateElement, degrees), when there is a rotate element
Rotate(t, index, degrees) ==
    IF t.config.rotateSelector THEN [t EXCEPT !.rotation[index] = degrees] ELSE t

Expand(t, target, index) ==
    Rotate([t EXCEPT !.height[target] = ScrollHeight(target)], index,
           t.config.expandedRotation)

Collapse(t, target, index) ==
    Rotate([t EXCEPT !.height[target] = GetCollapsedHeight(t)], index, 0)

\* initElement(target, config)
InitElement(t, target) ==
    [t EXCEPT !.height[target] =
        IF t.config.isOpen THEN ScrollHeight(target) ELSE GetCollapsedHeight(t)]

\* initConfig(config): its loop over config.triggers, from index on
RECURSIVE InitConfig(_, _)
InitConfig(t, index) ==
    IF index >= t.config.nTriggers THEN t
    ELSE LET t1 == InitElement(t, TargetOf(t.config, index))
             t2 == IF t.config.isOpen
                   THEN [Rotate(t1, index, t.config.expandedRotation)
                            EXCEPT !.config.currentOpenIndex = index]
                   ELSE t1
         IN InitConfig(t2, index + 1)

\* handleToggle(index, target, rotateElement, config); collapsing
\* config.targets[currentOpenIndex] throws when there is no such target
HandleToggle(t, index) ==
    LET config == t.config
        target == TargetOf(config, index)
        isCollapsed == t.height[target] <= GetCollapsedHeight(t)
        closing == /\ config.closeOthers
                   /\ config.currentOpenIndex # Null
                   /\ config.currentOpenIndex # index
        t1 == IF closing
              THEN Collapse(t, Target(config.currentOpenIndex), config.currentOpenIndex)
              ELSE t
    IN IF closing /\ config.currentOpenIndex >= config.nTargets THEN t
       ELSE IF isCollapsed
            THEN [Expand(t1, target, index) EXCEPT
                    !.config.currentOpenIndex = IF config.closeOthers THEN index ELSE @]
            ELSE [Collapse(t1, target, index) EXCEPT
                    !.config.currentOpenIndex = IF config.closeOthers THEN Null ELSE @]

\* onWindowResize(): its loop over config.targets, from index on
RECURSIVE OnWindowResize(_, _)
OnWindowResize(t, index) ==
    IF index >= t.config.nTargets THEN t
    ELSE LET target == Target(index)
             isOpen == t.height[target] > GetCollapsedHeight(t)
         IN OnWindowResize(
                [t EXCEPT !.height[target] =
                    IF isOpen THEN ScrollHeight(target) ELSE GetCollapsedHeight(t)],
                index + 1)

\* the page has no ComboClassConfigurator
EngineIdle ==
    /\ initialConfigs = ArrayOf(<<>>)
    /\ EngineIs(Constructed)

EngineUnchanged ==
    UNCHANGED <<phase, initialConfigs, classConfigs, binding, deb, rafQueue, classList, pos,
                attached, observers, scrollObservers, comboClassConfigs, lastMutation,
                log, hist>>

Gesture(type, index) == [type |-> type, index |-> index]

\* domContentLoadedHandler()
ToggleLoaded ==
    /\ ~toggleHeight.loaded
    /\ toggleHeight' = [InitConfig(toggleHeight, 0) EXCEPT !.loaded = TRUE]
    /\ lastEvent' = Gesture("DOMContentLoaded", Null)
    /\ UNCHANGED <<nEvents, filterInstance>>
    /\ EngineUnchanged

\* a click on trigger index
ToggleClick(index) ==
    /\ toggleHeight.loaded
    /\ nEvents < MaxEvents
    /\ index \in 0..(toggleHeight.config.nTriggers - 1)
    /\ toggleHeight' = [HandleToggle(toggleHeight, index) EXCEPT !.activated = TRUE]
    /\ lastEvent' = Gesture("click", index)
    /\ nEvents' = nEvents + 1
    /\ UNCHANGED filterInstance
    /\ EngineUnchanged

\* a touch on trigger index that ends dy pixels from where it started
ToggleTouch(index, dy) ==
    /\ toggleHeight.loaded
    /\ nEvents < MaxEvents
    /\ index \in 0..(toggleHeight.config.nTriggers - 1)
    /\ toggleHeight' = IF dy < 10
                       THEN [HandleToggle(toggleHeight, index) EXCEPT !.activated = TRUE]
                       ELSE toggleHeight
    /\ lastEvent' = Gesture(IF dy < 10 THEN "touchend" ELSE "scroll", index)
    /\ nEvents' = nEvents + 1
    /\ UNCHANGED filterInstance
    /\ EngineUnchanged

\* the window is resized and the root font size becomes f
ToggleResize(f) ==
    /\ toggleHeight.loaded
    /\ nEvents < MaxEvents
    /\ f # toggleHeight.rootFontSize
    /\ toggleHeight' = OnWindowResize([toggleHeight EXCEPT !.rootFontSize = f,
                                                           !.resized = TRUE], 0)
    /\ lastEvent' = Gesture("resize", Null)
    /\ nEvents' = nEvents + 1
    /\ UNCHANGED filterInstance
    /\ EngineUnchanged

InitToggle ==
    /\ EngineIdle
    /\ filterInstance = NoFilterInstance
    /\ \E config \in ToggleConfigs, f \in RootFontSizes :
            toggleHeight = ToggleHeightConstructor(config, f)
    /\ lastEvent = Gesture("construct", Null)
    /\ nEvents = 0

NextToggle ==
    \/ ToggleLoaded
    \/ \E index \in 0..(MaxPanels - 1) : ToggleClick(index)
    \/ \E index \in 0..(MaxPanels - 1), dy \in {0, 10} : ToggleTouch(index, dy)
    \/ \E f \in RootFontSizes : ToggleResize(f)

SpecToggle == InitToggle /\ [][NextToggle]_vars

\* the element is shown at its full height
IsExpanded(element) ==
    toggleHeight.height[element] = ScrollHeight(element)

ExpandedTargets ==
    {i \in 0..(toggleHeight.config.nTriggers - 1) :
        IsExpanded(TargetOf(toggleHeight.config, i))}

\* C26 -- ToggleHeight closeOthers: with closeOthers = true, after a trigger
\* activation that expands a target every other target of the configuration is
\* collapsed, and after any sequence of activations at most one target is
\* expanded, also when the configuration starts with isOpen = true.  (Stated
\* for the runs in which the window is not resized.)
CloseOthers ==
    (/\ toggleHeight.loaded /\ toggleHeight.config.closeOthers
     /\ toggleHeight.activated /\ ~toggleHeight.resized) =>
        /\ (/\ lastEvent.type \in {"click", "touchend"}
            /\ lastEvent.index \in ExpandedTargets) => ExpandedTargets = {lastEvent.index}
        /\ Cardinality(ExpandedTargets) <= 1

(***************************************************************************)
(* FilterInstance (src/unnamed/part_000): buttons that hide the elements   *)
(* which do not match the button's filter value.  The page has four        *)
(* elements matching filterTarget and a container for the buttons.         *)
(***************************************************************************)
FilterItems == <<1, 2, 3, 4>>

\* null and a string, as values of currentFilter and of getAttribute
JsNull == [null |-> TRUE, str |-> <<>>]
JsStr(str) == [null |-> FALSE, str |-> str]

\* element.getAttribute(attributeName), also the element's dataset.type
ItemAttr(e) ==
    CASE e = 1 -> JsStr(<<"a">>)
      [] e = 2 -> JsStr(<<"b">>)
      [] e = 3 -> JsStr(<<"a", ",", " ", "b">>)
      [] OTHER -> JsNull

\* the textContent of the element's child matching dynamicList, if it has one
ItemText(e) ==
    CASE e = 1 -> JsStr(<<" ", "a", " ">>)
      [] e = 2 -> JsStr(<<"b">>)
      [] e = 3 -> JsStr(<<"a", ",", " ", "b">>)
      [] OTHER -> JsNull

\* str.split(","), from the k-th character on, with the part read so far
RECURSIVE Split(_, _, _)
Split(str, k, part) ==
    IF k > Len(str) THEN <<part>>
    ELSE IF str[k] = "," THEN <<part>> \o Split(str, k + 1, <<>>)
    ELSE Split(str, k + 1, Append(part, str[k]))

\* the filters option, when it is given
ProvidedFilters == <<<<"a">>, <<"b">>, <<"c">>>>

\* the options after the defaults; an omitted class option reads "undefined"
\* wherever the code uses it
FilterOptions ==
    {[kind |-> k, filters |-> f, buttonClass |-> bc, buttonActiveClass |-> ac,
      hiddenClass |-> "hidden"] :
        k \in {"attribute", "function", "dynamicList"},
        f \in {ArrayOf(ProvidedFilters), NotAnArray},
        bc \in {"filter-btn", "undefined"}, ac \in {"active", "undefined"}}

\* this.filterFunction(element, filterValue)
FilterFunction(opt, element, filterValue) ==
    CASE opt.kind = "attribute" ->
            LET attr == ItemAttr(element)
                values == Split(attr.str, 1, <<>>)
            IN /\ ~attr.null /\ attr.str # <<>>
               /\ \E k \in 1..Len(values) : Trim(values[k]) = filterValue
      [] opt.kind = "function" -> ItemAttr(element) = JsStr(filterValue)
      [] OTHER -> ~ItemText(element).null /\ Trim(ItemText(element).str) = filterValue

\* [...new Set(values)]
RECURSIVE Unique(_)
Unique(values) ==
    IF values = <<>> THEN <<>>
    ELSE LET rest == Unique(SubSeq(values, 1, Len(values) - 1))
             last == values[Len(values)]
         IN IF \E k \in 1..Len(rest) : rest[k] = last THEN rest ELSE Append(rest, last)

\* the filters generated from the elements when the option is omitted
GeneratedFilters(opt, elements) ==
    LET attrs == SelectSeq([k \in 1..Len(elements) |-> ItemAttr(elements[k])],
                           LAMBDA a : ~a.null)
        texts == SelectSeq([k \in 1..Len(elements) |->
                                LET t == ItemText(elements[k])
                                IN IF t.null THEN t ELSE JsStr(Trim(t.str))],
                           LAMBDA t : ~t.null /\ t.str # <<>>)
        found == IF opt.kind = "attribute" THEN attrs ELSE texts
    IN Unique([k \in 1..Len(found) |-> found[k].str])

\* _createButtons()
CreateButtons(opt, filters) ==
    [k \in 1..Len(filters) |-> [value |-> filters[k], classList |-> {opt.buttonClass}]]

\* new FilterInstance(options), with filterTarget and containerClass found;
\* it throws when it can neither take nor generate the filters
FilterInstanceConstructor(opt, hidden) ==
    IF ~opt.filters.isArray /\ opt.kind = "function" THEN NoFilterInstance
    ELSE [created |-> TRUE, opt |-> opt, elements |-> FilterItems,
          currentFilter |-> JsNull,
          buttons |-> CreateButtons(opt, IF opt.filters.isArray THEN opt.filters.items
                                         ELSE GeneratedFilters(opt, FilterItems)),
          hidden |-> hidden, resets |-> 0]

\* _applyFilter: classList.add(hiddenClass) on the elements that do not match
ApplyFilterAddOnly(f, filterValue) ==
    [f EXCEPT !.hidden =
        @ \cup {f.elements[k] : k \in {j \in 1..Len(f.elements) :
                                        ~FilterFunction(f.opt, f.elements[j], filterValue)}}]

\* _applyFilter(filterValue): classList.toggle(hiddenClass, !isMatch) on each element
ApplyFilter(f, filterValue) ==
    LET elements == {f.elements[k] : k \in 1..Len(f.elements)}
    IN [f EXCEPT !.hidden =
            (@ \ {e \in elements : FilterFunction(f.opt, e, filterValue)})
            \cup {e \in elements : ~FilterFunction(f.opt, e, filterValue)}]

\* _updateActiveButton(activeButton); activeButton = 0 stands for null
UpdateActiveButton(f, activeButton) ==
    LET removed == [k \in 1..Len(f.buttons) |->
                        IF f.opt.buttonClass \in f.buttons[k].classList
                        THEN [f.buttons[k] EXCEPT !.classList = @ \ {f.opt.buttonActiveClass}]
                        ELSE f.buttons[k]]
    IN [f EXCEPT !.buttons =
            IF activeButton # 0
            THEN [removed EXCEPT ![activeButton].classList = @ \cup {f.opt.buttonActiveClass}]
            ELSE removed]

\* _resetFilter()
ResetFilter(f) ==
    UpdateActiveButton(
        [f EXCEPT !.hidden = @ \ {f.elements[k] : k \in 1..Len(f.elements)},
                  !.currentFilter = JsNull, !.resets = @ + 1], 0)

\* _toggleFilter(filterValue, button)
ToggleFilter(f, filterValue, button) ==
    IF f.currentFilter = JsStr(filterValue) THEN ResetFilter(f)
    ELSE UpdateActiveButton(
            [ApplyFilter(f, filterValue) EXCEPT !.currentFilter = JsStr(filterValue)], button)

\* a click on the button-th button of the container
FilterClick(button) ==
    /\ filterInstance.created
    /\ nEvents < MaxEvents
    /\ button \in 1..Len(filterInstance.buttons)
    /\ filterInstance' =
            ToggleFilter(filterInstance, filterInstance.buttons[button].value, button)
    /\ lastEvent' = [type |-> "click", button |-> button,
                     wasActive |-> filterInstance.currentFilter =
                                        JsStr(filterInstance.buttons[button].value)]
    /\ nEvents' = nEvents + 1
    /\ UNCHANGED toggleHeight
    /\ EngineUnchanged

InitFilter ==
    /\ EngineIdle
    /\ toggleHeight = NoToggleHeight
    /\ \E opt \in FilterOptions, hidden \in {{}, {1}, {4}} :
            filterInstance = FilterInstanceConstructor(opt, hidden)
    /\ lastEvent = [type |-> "construct", button |-> 0, wasActive |-> FALSE]
    /\ nEvents = 0

NextFilter == \E button \in 1..Len(filterInstance.buttons) : FilterClick(button)

SpecFilter == InitFilter /\ [][NextFilter]_vars

\* the comma-separated values of an attribute, without the spaces around them
ListedValues(str) ==
    {Trim(SubSeq(str, i, j)) : <<i, j>> \in
        {p \in (1..(Len(str) + 1)) \X (0..Len(str)) :
            /\ p[1] <= p[2] + 1
            /\ \A k \in p[1]..p[2] : str[k] # ","
            /\ (p[1] = 1 \/ str[p[1] - 1] = ",")
            /\ (p[2] = Len(str) \/ str[p[2] + 1] = ",")}}

Matching(v) ==
    {e \in 1..4 :
        CASE filterInstance.opt.kind = "attribute" ->
                e \in {1, 2, 3} /\ v \in ListedValues(ItemAttr(e).str)
          [] filterInstance.opt.kind = "function" -> e \in {1, 2, 3} /\ ItemAttr(e).str = v
          [] OTHER -> (e = 1 /\ v = <<"a">>) \/ (e \in {2, 3} /\ ItemText(e).str = v)}

ActiveButtons ==
    {k \in 1..Len(filterInstance.buttons) :
        filterInstance.opt.buttonActiveClass \in filterInstance.buttons[k].classList}

\* C27 -- Filter toggle: after any sequence of filter-button clicks, if
\* currentFilter is a value v then exactly the elements not matching v carry
\* hiddenClass and only the button of v carries the active class; a click on the
\* button of the active filter resets: currentFilter is null, no element is
\* hidden and no button is active.
FilterToggle ==
    (filterInstance.created /\ lastEvent.type = "click") =>
        /\ ~filterInstance.currentFilter.null =>
            /\ filterInstance.hidden = (1..4) \ Matching(filterInstance.currentFilter.str)
            /\ ActiveButtons = {lastEvent.button}
            /\ filterInstance.buttons[lastEvent.button].value =
                    filterInstance.currentFilter.str
            /\ ~lastEvent.wasActive
        /\ lastEvent.wasActive =>
            /\ filterInstance.currentFilter.null
            /\ filterInstance.hidden = {}
            /\ ActiveButtons = {}

\* a filter is active that hides some elements and shows others, after a reset
FilterToggleWitness ==
    /\ filterInstance.created /\ filterInstance.resets >= 1
    /\ ~filterInstance.currentFilter.null
    /\ filterInstance.hidden # {} /\ filterInstance.hidden # 1..4
    /\ ActiveButtons # {}

\* the callback invocations with (elem, act) that the frame callbacks of rule
\* i made in the last step: those on an element that is not the rule's trigger
ExecutorCallbacks(i, act, elem) ==
    {k \in Entries(log, "callback", i, act) :
        log[k].elem = elem /\ elem # binding[i].trigger}

\* the frame callbacks of rule i with (elem, act) in the last step that
\* executed a class operation on the element: all but those of an apply pass
\* of a rule with topAddClasses on an element neither above nor below the
\* viewport
ExecutorMutations(i, act, elem) ==
    {k \in Entries(log, "mutate", i, act) :
        /\ log[k].elem = elem
        /\ ~(/\ act = "add" /\ classConfigs[i].topAddClasses # <<>>
             /\ log[k].pos = "inside")}

\* C28 -- Callback once per mutated element: in one mutation pass the executor
\* invokes the callback exactly once, with the pass's action, for each element
\* the pass mutates, and not for an element the pass does not mutate (one at
\* an unselected position, or a selected element of a rule with topAddClasses
\* that is neither fully above nor fully below the viewport).
CallbackPerMutatedElement ==
    lastEvent.type = "frame" =>
        \A i \in Rules, act \in {"add", "remove"}, elem \in Elems :
            (classConfigs[i].callback /\ elem # binding[i].trigger) =>
                Cardinality(ExecutorCallbacks(i, act, elem))
                    = Cardinality(ExecutorMutations(i, act, elem))

\* the elements in the document now that match the target selector of rule i
\* inside its container (#box, whose only child is element 2, or the document)
LiveMatches(i) ==
    {e \in attached :
        /\ Tail(classConfigs[i].targetClass) \in classList[e]
        /\ (classConfigs[i].parentElement = Empty \/ e = 2)}

\* whether e is counted by start, end and frequency at its place among the
\* elements that match now
Counted(i, e) ==
    LET p == Cardinality({x \in LiveMatches(i) : x <= e})
        c == classConfigs[i]
    IN /\ e \in LiveMatches(i)
       /\ p >= c.start
       /\ (c.end = 0 \/ p <= c.end)
       /\ (p - c.start) % c.frequency = 0

IsQueued(i, act, e) ==
    \E n \in 1..Len(rafQueue) :
        /\ rafQueue[n].kind = "mutate" /\ rafQueue[n].rule = i
        /\ rafQueue[n].act = act /\ rafQueue[n].elem = e

\* C29 -- Live target sequence: the target sequence is queried when the action
\* executes, not at setup: an element matching the target selector that was
\* added to (removed from) the container after setup and before the trigger
\* fired is counted (not counted) when the positions are matched against start,
\* end and frequency.
LiveTargetSequence ==
    \A i \in Rules, act \in {"add", "remove"} :
        Entries(log, "pass", i, act) # {} =>
            \A e \in Elems : IsQueued(i, act, e) <=> Counted(i, e)

\* a pass has run with element 2 put into the document after setup and
\* element 3 taken out of it after setup: element 2 is among the targets, and
\* so is an element that comes after element 3
LiveTargetSequenceWitness ==
    \E i \in Rules, act \in {"add", "remove"} :
        /\ Entries(log, "pass", i, act) # {}
        /\ 2 \in attached \ hist[i].setupTree
        /\ 3 \in hist[i].setupTree \ attached
        /\ IsQueued(i, act, 2)
        /\ \E e \in {4, 5, 6} : IsQueued(i, act, e)

\* the frame callbacks executed on element e in the step that led to log l,
\* in order
MutationsOf(l, e) == SelectSeq(l, LAMBDA x : x.op = "mutate" /\ x.elem = e)

\* what one frame callback may do to the class list it finds: an apply pass
\* of a rule without topAddClasses adds addClasses, a remove pass removes
\* removeClasses, and nothing else changes; a remove pass of a rule with
\* topAddClasses removes topAddClasses and addClasses
InActionFrame(x) ==
    LET c == classConfigs[x.rule]
    IN /\ (c.topAddClasses = <<>> /\ x.act = "add") =>
            /\ ClassSet(c.addClasses) \subseteq x.after
            /\ x.after \ ClassSet(c.addClasses) = x.before \ ClassSet(c.addClasses)
       /\ (c.topAddClasses = <<>> /\ x.act = "remove") =>
            /\ x.after \cap ClassSet(c.removeClasses) = {}
            /\ x.after \cup ClassSet(c.removeClasses) = x.before \cup ClassSet(c.removeClasses)
       /\ (c.topAddClasses # <<>> /\ x.act = "remove") =>
            /\ x.after \cap (ClassSet(c.topAddClasses) \cup ClassSet(c.addClasses)) = {}
            /\ \A cls \in x.before \ x.after :
                    cls \in ClassSet(c.topAddClasses) \cup ClassSet(c.addClasses)
            /\ x.after \subseteq x.before

\* the class list of e changes in a step only through the frame callbacks
\* that were registered for e, one after the other
ChangedByCallbacks(e) ==
    LET done == MutationsOf(log', e)
        registered == SelectSeq(rafQueue, LAMBDA cb : cb.kind = "mutate" /\ cb.elem = e)
    IN IF lastEvent'.type # "frame" \/ registered = <<>>
       THEN classList'[e] = classList[e]
       ELSE /\ Len(done) = Len(registered)
            /\ \A n \in 1..Len(done) :
                  /\ done[n].rule = registered[n].rule /\ done[n].act = registered[n].act
                  /\ done[n].before = IF n = 1 THEN classList[e] ELSE done[n - 1].after
            /\ classList'[e] = done[Len(done)].after

\* C30 -- Action frame: for a rule without topAddClasses an apply pass only
\* adds addClasses and a remove pass only removes removeClasses, and only on
\* the selected target elements: no other class and no unselected element
\* changes.  For a rule with topAddClasses a remove pass removes both
\* topAddClasses and addClasses from the selected elements.
ActionFrame ==
    /\ [](\A k \in 1..Len(log) : log[k].op = "mutate" => InActionFrame(log[k]))
    /\ [][\A e \in Elems : ChangedByCallbacks(e)]_vars

\* a remove pass of a rule with topAddClasses has taken the class "past" off
\* one selected element and the class "future" off another
ActionFrameWitness ==
    /\ lastEvent.type = "frame"
    /\ \E j, k \in 1..Len(log) :
          /\ log[j].op = "mutate" /\ log[k].op = "mutate"
          /\ log[j].act = "remove" /\ log[k].act = "remove"
          /\ classConfigs[log[j].rule].topAddClasses # <<>>
          /\ <<"past">> \in log[j].before \ classList[log[j].elem]
          /\ <<"future">> \in log[k].before \ classList[log[k].elem]

\* the number of rules a declaration is to be expanded to: its repeat count
\* floored if that is a number >= 1, else 1
ExpectedCopies(declared) ==
    LET value == declared.repeatConfiguration
    IN IF value.type = "number" /\ ~value.nan /\ value.num >= value.den
       THEN CHOOSE n \in 1..value.num : n * value.den <= value.num /\ (n + 1) * value.den > value.num
       ELSE 1

\* C31 -- Positive integer counts: every normalized rule has a repeat count and
\* a frequency that are integers >= 1: a repeatConfiguration that is no number
\* or below 1 yields exactly one rule, a fractional one is floored, and the
\* frequency a mutation pass uses is an integer >= 1 whatever was declared, so
\* that a pass reaches the target at its start position.
PositiveCounts ==
    phase = "ready" =>
        /\ \A d \in 1..Len(initialConfigs.items) :
              Cardinality({i \in Rules : classConfigs[i].declaration = d})
                  = ExpectedCopies(initialConfigs.items[d])
        /\ \A i \in Rules :
              /\ classConfigs[i].frequency >= 1
              /\ \A act \in {"add", "remove"} :
                    (/\ Entries(log, "pass", i, act) # {}
                     /\ Cardinality(LiveMatches(i)) >= classConfigs[i].start)
                    => \E e \in LiveMatches(i) :
                          /\ Cardinality({x \in LiveMatches(i) : x <= e}) = classConfigs[i].start
                          /\ IsQueued(i, act, e)

\* the frame callbacks of debouncer w of rule i that are pending
PendingFrameCallbacks(i, w) ==
    {n \in 1..Len(rafQueue) :
        /\ rafQueue[n].kind = "debounce"
        /\ rafQueue[n].rule = i /\ rafQueue[n].act = w}

\* C32 -- Single pending frame callback: for each debounced action at most one
\* frame callback is pending at any time; a request made while one is pending
\* does not create a second one.
SinglePendingFrame ==
    \A i \in Rules, w \in {"add", "remove"} :
        /\ Cardinality(PendingFrameCallbacks(i, w)) <= 1
        /\ (PendingFrameCallbacks(i, w) # {}) <=> deb[i][w].rafId

\* a debounced action was requested while its frame callback was pending
SinglePendingFrameWitness ==
    \E i \in Rules, w \in {"add", "remove"} :
        /\ Entries(log, "request", i, w) # {}
        /\ deb[i][w].pendingReqs >= 2
        /\ Cardinality(PendingFrameCallbacks(i, w)) = 1

\* the rules the step's trigger event was dispatched to
TriggeredRules ==
    {i \in Rules :
        /\ binding[i].trigger = lastEvent'.elem
        /\ \/ lastEvent'.type = "click" /\ classConfigs[i].eventName = "click"
           \/ lastEvent'.type \in {"mouseenter", "mouseleave"}
                /\ classConfigs[i].eventName = "hover"
           \/ lastEvent'.type = "crossing" /\ classConfigs[i].eventName = "scrollInView"}

\* the flag and the debouncers of rule i, with its pending frame callbacks
RuleState(i, cfgs, debs, queue) ==
    <<cfgs[i].classesAdded, debs[i].add.rafId, debs[i].add.timeoutId, debs[i].add.argsCache,
      debs[i].remove.rafId, debs[i].remove.timeoutId, debs[i].remove.argsCache,
      SelectSeq(queue, LAMBDA cb : cb.kind = "debounce" /\ cb.rule = i)>>

\* C33 -- Rule independence: a trigger event on a rule's trigger changes the
\* classesAdded flag and the pending debounce state of the rules bound to
\* that trigger for that event only, never those of a sibling replica, of a
\* paired rule of the same declaration, or of any other rule.
RuleIndependence ==
    [][lastEvent'.type \in {"click", "mouseenter", "mouseleave", "crossing"}
        => \A i \in Rules \ TriggeredRules :
              RuleState(i, classConfigs', deb', rafQueue')
                  = RuleState(i, classConfigs, deb, rafQueue)]_vars

\* a trigger event changed the state of one replica while its sibling, made
\* from the same declaration, has requests of its own pending
RuleIndependenceWitness ==
    \E i, j \in Rules :
        /\ i # j /\ classConfigs[i].declaration = classConfigs[j].declaration
        /\ lastEvent.type \in {"click", "mouseenter", "mouseleave", "crossing"}
        /\ lastEvent.elem = binding[i].trigger /\ binding[j].trigger # binding[i].trigger
        /\ Entries(log, "request", i, "add") \cup Entries(log, "request", i, "remove") # {}
        /\ deb[j].add.rafId \/ deb[j].remove.rafId \/ classConfigs[j].classesAdded

\* C34 -- Own-signature observation: every visibility rule bound to an
\* element has that element observed by the watcher made for the rule's own
\* threshold set, also when a visibility rule with another threshold set was
\* bound to the element first.
OwnSignatureObserved ==
    \A i \in Rules :
        (IsVisibility(i) /\ binding[i].listening) =>
            /\ binding[i].observer \in DOMAIN observers
            /\ observers[binding[i].observer].threshold
                  = SortJS(CalculateThresholds(classConfigs[i].entryThreshold,
                                               classConfigs[i].exitThreshold))
            /\ binding[i].trigger \in observers[binding[i].observer].observed

\* C35 -- One action per crossing: a single crossing notification requests at
\* most one of apply and remove for a rule, also when the rule's
\* exitThreshold is greater than its entryThreshold and the ratio lies
\* between them.
OneActionPerCrossing ==
    lastEvent.type = "crossing" =>
        \A i \in Rules :
            /\ Cardinality(Entries(log, "request", i, "add")) <= 1
            /\ Cardinality(Entries(log, "request", i, "remove")) <= 1
            /\ ~ /\ Entries(log, "request", i, "add") # {}
                 /\ Entries(log, "request", i, "remove") # {}

\* C36 -- Click parity under bursts: for a click rule with once = false,
\* after any number of activations interleaved in any way with frames
\* (several activations within one frame included), once every pending frame
\* callback and timer has run the rule is Active exactly if the number of
\* activations is odd.
ClickParity ==
    \A i \in Rules :
        (/\ IsClick(i) /\ ~classConfigs[i].once
         /\ Flushed /\ ~deb[i].add.timeoutId /\ ~deb[i].remove.timeoutId) =>
            classConfigs[i].classesAdded = (hist[i].clicks % 2 = 1)

\* the action of the last entry with the given op for rule i in the log l of
\* a step ("" if there is none)
LastAct(l, op, i) ==
    LET ks == {k \in 1..Len(l) : l[k].op = op /\ l[k].rule = i}
    IN IF ks = {} THEN ""
       ELSE l[CHOOSE k \in ks : \A x \in ks : x <= k].act

\* the pointer events rules listen for
PointerEvents == {"click", "mouseenter", "mouseleave"}

\* C37 -- Pass order follows trigger order: when an apply request and a
\* remove request of the same rule are both pending in the same frame (hover
\* enter, leave, enter within one frame), the pass that the frame runs last
\* is the one requested by the most recent trigger event.  (Stated for
\* pointer events, the most recent one directly followed by the frame.)
PassOrderFollowsTriggers ==
    [][\A i \in Rules :
          (/\ lastEvent'.type = "frame" /\ lastEvent.type \in PointerEvents
           /\ LastAct(log, "request", i) # ""
           /\ deb[i].add.rafId /\ deb[i].remove.rafId)
          => LastAct(log', "exec", i) = LastAct(log, "request", i)]_vars

\* C38 -- Debounce timer safety: with debounce > 0 the timer path of the
\* debouncer never runs the function after the frame path has consumed the
\* cached arguments of the same request: the timer callback raises no
\* exception, and what it runs was requested since the function last ran.
TimerSafety ==
    lastEvent.type = "timer" =>
        /\ \A k \in 1..Len(log) : log[k].op # "error"
        /\ \A k \in 1..Len(log) : log[k].op = "exec" => log[k].n >= 1

\* the elements inside the container that rule i declares: none if its
\* selector matches no element
InContainer(i) ==
    LET parentElement == classConfigs[i].parentElement
        container == IF IsElement(parentElement) THEN parentElement.elem
                     ELSE GetElement(parentElement.str, classList, attached)
    IN IF container = NoElem THEN {} ELSE Descendants(container)

\* C39 -- Container scoping: a pass of a rule with a declared container
\* selector never changes the classes of an element outside that container,
\* also when the selector (the suffixed selector of a replica) matches no
\* element.
ContainerScoping ==
    lastEvent.type = "frame" =>
        \A k \in 1..Len(log) :
            (/\ log[k].op = "mutate" /\ log[k].before # log[k].after
             /\ Truthy(classConfigs[log[k].rule].parentElement))
            => log[k].elem \in InContainer(log[k].rule)

\* C40 -- Missing trigger selector: a click, hover or visibility rule
\* declared without any trigger selector does not abort setup: binding it
\* raises no exception, and every rule after it in the list is still bound.
MissingTriggerTolerated ==
    /\ phase # "failed"
    /\ \A k \in 1..Len(log) : ~(log[k].op = "error" /\ log[k].act = "bind")
    /\ phase = "ready" =>
          \A i, j \in Rules :
              (/\ i < j /\ HasHandler(i) /\ ~Truthy(classConfigs[i].triggerElement)
               /\ HasHandler(j) /\ ResolvedTrigger(j) # NoElem)
              => binding[j].listening

====
